---- MODULE Spec2Model ----
(***************************************************************************)
(* Model of the document conversion cascades and of the text variable      *)
(* engine of NovenUtility_Backend.                                         *)
(*                                                                         *)
(*   Spec       the three conversion cascades                              *)
(*                AdvancedPdfToWordConverter.convertPdfToWord   ("adv")    *)
(*                PdfToWordConverter.convertPdfToWord           ("basic")  *)
(*                PdfConverter.convertDocxToPdfNative           ("d2p")    *)
(*              one call at a time, every await of an external             *)
(*              collaborator a state of its own.                           *)
(*   SpecSubst  DocxProcessor.replaceVariables applied to bounded texts    *)
(*              and value maps.                                            *)
(*   SpecExtract   DocxProcessor.extractTextAndVariables and getFileStats, *)
(*              followed by a substitution and a second extraction.        *)
(*   SpecRecon  the text reconstruction methods of the PDF-to-Word         *)
(*              converters and the two DOCX assemblers.                    *)
(*   SpecRegistry  POST /api/template/:templateId/values on the template   *)
(*              registry.                                                  *)
(*   SpecServer POST /api/generate-document and /api/convert-pdf-to-word,  *)
(*              two requests in flight.                                    *)
(*   SpecTemplates   the template handlers of server.js (upload, get,      *)
(*              list, values, generate, stats, preview, delete, download)  *)
(*              with the registry, its snapshot on disk and the files;     *)
(*              SpecTemplatesFair adds weak fairness of the steps.         *)
(***************************************************************************)
EXTENDS Integers, Sequences, FiniteSets, TLC

VARIABLES
    kind,       \* which cascade the call runs: "adv", "basic", "d2p"
    inPath,     \* inputPdfPath / inputDocxPath
    outPath,    \* outputDocxPath / outputPdfPath
    pc,         \* position of the call: idle, try, await, done, raised
    strat,      \* index of the strategy the cascade is at (1-based)
    sub,        \* position inside the strategy (loop index i+1, or step)
    wait,       \* the collaborator the call is suspended on
    timeoutMs,  \* the timeout the code armed for that await (0: none)
    silent,     \* TRUE when the awaited collaborator will never answer
    calls,      \* strategies invoked by the cascade, in order
    failures,   \* failures the cascade's catch blocks logged, in order
    sublog,     \* failures logged inside a strategy (sub-variants)
    winner,     \* index of the strategy that returned, 0 if none
    result,     \* the path the cascade returned
    error,      \* the reasons carried by the error the cascade raised
    fs,         \* the disk: path -> file
    enhCalls,   \* invocations of convertWithEnhancedTextExtraction
    tokens,     \* SpecSubst: the text as it was built
    text,       \* SpecSubst: the text given to replaceVariables
    valueMap,   \* SpecSubst: the variables object, in key order
    out,        \* SpecSubst: what replaceVariables returned
    spc,        \* SpecSubst: position
    headers,    \* SpecExtract: the header/footer parts of the document
    hfFail,     \* SpecExtract: where the header/footer scan threw (0: nowhere)
    variables,  \* SpecExtract: the Set `variables`, in insertion order
    stats,      \* SpecExtract: what getFileStats returned
    again,      \* SpecExtract: names extracted from the substituted text
    epc,        \* SpecExtract: position
    raw,        \* SpecRecon: the text pdf-parse extracted
    blocks,     \* SpecRecon: per line, the branch taken and the string pushed
    enhanced,   \* SpecRecon: the text handed to the assembler
    doc,        \* SpecRecon: what the assembler made of it
    via,        \* SpecRecon: the reconstruction method that ran
    rpc,        \* SpecRecon: position
    registry,   \* SpecRegistry: the Map `templates`: id -> savedValues
    templatesFile, \* SpecRegistry: data/templates.json
    served,     \* SpecRegistry: the requests served, in order
    reqs,       \* SpecServer: the requests in flight
    temp,       \* SpecServer: the files of tempDir written by the handlers
    templates,  \* SpecTemplates: the Map `templates`: id -> template
    uploadsDir, \* SpecTemplates: the files present in uploadsDir
    templatesDataFile, \* SpecTemplates: what data/templates.json holds
    uuids,      \* SpecTemplates: how many ids uuidv4 has handed out
    rq,         \* SpecTemplates: the requests, in flight or answered
    nreq,       \* SpecTemplates: requests received so far
    tempDir,    \* SpecTemplates: the files present in tempDir
    downloaded, \* SpecTemplates: the files whose download has finished
    console     \* what console.log / console.error have written

cascVars == <<kind, inPath, outPath, pc, strat, sub, wait, timeoutMs, silent,
              calls, failures, sublog, winner, result, error, fs, enhCalls>>
substVars == <<tokens, text, valueMap, out, spc>>
extVars == <<headers, hfFail, variables, stats, again, epc>>
reconVars == <<raw, blocks, enhanced, doc, via, rpc>>
regVars == <<registry, templatesFile, served>>
srvVars == <<reqs, temp>>
tplVars == <<templates, uploadsDir, templatesDataFile, uuids, rq, nreq,
             tempDir, downloaded, console>>
nonCascVars == <<substVars, extVars, reconVars, regVars, srvVars, tplVars>>
notSubstVars == <<cascVars, extVars, reconVars, regVars, srvVars, tplVars>>
notExtVars == <<cascVars, substVars, reconVars, regVars, srvVars, tplVars>>
notSubstExtVars == <<cascVars, reconVars, regVars, srvVars, tplVars>>
notReconVars == <<cascVars, substVars, extVars, regVars, srvVars, tplVars>>
notRegVars == <<cascVars, substVars, extVars, reconVars, srvVars, tplVars>>
notSrvVars == <<cascVars, substVars, extVars, reconVars, regVars, tplVars>>
notTplVars == <<cascVars, substVars, extVars, reconVars, regVars, srvVars>>
vars == <<kind, inPath, outPath, pc, strat, sub, wait, timeoutMs, silent,
          calls, failures, sublog, winner, result, error, fs, enhCalls,
          tokens, text, valueMap, out, spc,
          headers, hfFail, variables, stats, again, epc,
          raw, blocks, enhanced, doc, via, rpc,
          registry, templatesFile, served, reqs, temp,
          templates, uploadsDir, templatesDataFile, uuids, rq, nreq,
          tempDir, downloaded, console>>

None == "none"

(***************************************************************************)
(* Paths and the disk                                                      *)
(***************************************************************************)
Dirs == {"uploads", "temp"}
Stems == {"in", "out", "page"}
Exts == {".pdf", ".PDF", ".docx", ".DOCX", ".rtf", ".png"}
Paths == [dir : Dirs, stem : Stems, ext : Exts]

Path(d, s, e) == [dir |-> d, stem |-> s, ext |-> e]

\* no path: null / undefined
NoPath == Path("", "", "")

\* path.dirname
Dirname(p) == p.dir

\* String.prototype.replace(from, to) on a path whose only possible
\* occurrence of `from` is its extension: no occurrence, no change.
ReplaceExt(p, from, to) == IF p.ext = from THEN [p EXCEPT !.ext = to] ELSE p

\* A file: its size (-1: no file, 0: zero bytes, 1: some bytes), the strategy
\* during which its content was produced (0: the document given as input)
\* and the strategy that put it at its path.
NoFile == [size |-> -1, by |-> 0, at |-> 0]
File(size, by) == [size |-> size, by |-> by, at |-> by]
Sizes == {0, 1}

\* fs.existsSync
ExistsSync(fsys, p) == fsys[p].size >= 0

\* Faulty variant: the write is lost: nothing reaches the path
WriteFileLost(fsys, p, size, by) == fsys

\* fs.writeFile / a collaborator writing its output
WriteFile(fsys, p, size, by) == [fsys EXCEPT ![p] = File(size, by)]

\* fs.move(src, dest, { overwrite: true })
Move(fsys, src, dest, by) ==
    [fsys EXCEPT ![dest] = [fsys[src] EXCEPT !.at = by], ![src] = NoFile]

(***************************************************************************)
(* The cascades' tables                                                    *)
(***************************************************************************)
Kinds == {"adv", "basic", "d2p"}

NumStrategies(k) == IF k = "d2p" THEN 3 ELSE 4

\* Faulty variant: DOCX-to-PDF tries the library before the command line
StrategyNameLibraryFirst(k, s) ==
    CASE k = "adv" ->
           (CASE s = 1 -> "convertWithLibreOfficeAdvanced"
              [] s = 2 -> "convertWithPdf2DocxAdvanced"
              [] s = 3 -> "convertWithPdfParseAdvanced"
              [] OTHER -> "convertWithBasicExtraction")
      [] k = "basic" ->
           (CASE s = 1 -> "convertWithLibreOffice"
              [] s = 2 -> "convertWithPdf2Docx"
              [] s = 3 -> "convertWithAlternativeParsing"
              [] OTHER -> "convertWithEnhancedTextExtraction")
      [] OTHER ->
           (CASE s = 1 -> "convertDocxToPdfLibreConvert"
              [] s = 2 -> "convertDocxToPdfLibreOffice"
              [] OTHER -> "convertHtmlToPdf")

\* The strategy the cascade calls at position s.
StrategyName(k, s) ==
    CASE k = "adv" ->
           (CASE s = 1 -> "convertWithLibreOfficeAdvanced"
              [] s = 2 -> "convertWithPdf2DocxAdvanced"
              [] s = 3 -> "convertWithPdfParseAdvanced"
              [] OTHER -> "convertWithBasicExtraction")
      [] k = "basic" ->
           (CASE s = 1 -> "convertWithLibreOffice"
              [] s = 2 -> "convertWithPdf2Docx"
              [] s = 3 -> "convertWithAlternativeParsing"
              [] OTHER -> "convertWithEnhancedTextExtraction")
      [] OTHER ->
           (CASE s = 1 -> "convertDocxToPdfLibreOffice"
              [] s = 2 -> "convertDocxToPdfLibreConvert"
              [] OTHER -> "convertHtmlToPdf")

\* conversionMethods.length (the CLI strategy of d2p runs one command)
NumMethods(k) == CASE k = "adv" -> 4 [] k = "basic" -> 3 [] OTHER -> 1

\* --convert-to of the i-th command
TargetExt(k, i) ==
    CASE k = "adv" -> (IF i = 4 THEN ".rtf" ELSE ".docx")
      [] k = "basic" -> ".docx"
      [] OTHER -> ".pdf"

\* the extensions the strategy looks for after the command
PossibleExtensions(k) ==
    CASE k = "adv" -> <<".docx", ".rtf">>
      [] k = "basic" -> <<".docx">>
      [] OTHER -> <<".pdf">>

\* the extension string the strategy replaces in the input path
SourceExt(k) == IF k = "d2p" THEN ".docx" ELSE ".pdf"

SofficeTimeoutAdv == 180000
SofficeTimeoutBasic == 120000
SofficeTimeoutD2p == 30000

\* the { timeout } option the code passes when it awaits collaborator c
TimeoutOf(k, c) ==
    IF c = "soffice"
    THEN (CASE k = "adv" -> SofficeTimeoutAdv
            [] k = "basic" -> SofficeTimeoutBasic
            [] OTHER -> SofficeTimeoutD2p)
    ELSE 0

\* where soffice --outdir dirname(out) puts its output for input p
SofficeOutput(k, p, op, i) == Path(Dirname(op), p.stem, TargetExt(k, i))

\* expectedPath = inputPath.replace(<source ext>, ext)
ExpectedPath(k, p, e) == ReplaceExt(p, SourceExt(k), e)

\* the first expected path that exists, NoPath if there is none
ConvertedFile(k, fsys, p) ==
    LET exts == PossibleExtensions(k)
        hits == {j \in 1..Len(exts) : ExistsSync(fsys, ExpectedPath(k, p, exts[j]))}
    IN  IF hits = {} THEN NoPath
        ELSE ExpectedPath(k, p, exts[CHOOSE j \in hits : \A h \in hits : j <= h])

\* the first collaborator strategy s awaits
FirstCollaborator(k, s) ==
    CASE s = 1 -> "soffice"
      [] s = 2 -> (IF k = "d2p" THEN "libreconvert" ELSE "pdf2docx")
      [] s = 3 -> (CASE k = "adv" -> "pdfparse"
                     [] k = "basic" -> "pdf2pic"
                     [] OTHER -> "mammoth")
      [] OTHER -> "pdfparse"

(***************************************************************************)
(* Control of the cascade                                                  *)
(***************************************************************************)
NoWait == /\ wait' = None /\ timeoutMs' = 0 /\ silent' = FALSE

\* `await collaborator(...)`: the call is suspended until it settles
Await(c) ==
    /\ pc' = "await"
    /\ wait' = c
    /\ timeoutMs' = TimeoutOf(kind, c)
    /\ silent' \in BOOLEAN

\* Faulty variant: `await this.strategy(...)` without the return: the cascade
\* goes on to the next strategy after a success
ReturnsFallsThrough ==
    /\ winner' = strat
    /\ result' = outPath
    /\ IF strat < NumStrategies(kind)
       THEN pc' = "try" /\ strat' = strat + 1
       ELSE pc' = "done" /\ strat' = strat
    /\ wait' = None /\ timeoutMs' = 0 /\ silent' = FALSE
    /\ UNCHANGED <<failures, error>>

\* `return await this.strategy(...)` with the strategy resolved
Returns ==
    /\ pc' = "done"
    /\ winner' = strat
    /\ result' = outPath
    /\ NoWait
    /\ UNCHANGED <<strat, failures, error>>

\* Faulty variant: no try/catch around the strategies: the first failure
\* reaches the caller
ThrowsAborts(reason) ==
    /\ pc' = "raised"
    /\ error' = <<[strategy |-> strat, reason |-> reason]>>
    /\ wait' = None /\ timeoutMs' = 0 /\ silent' = FALSE
    /\ UNCHANGED <<strat, failures, winner, result>>

\* the strategy threw: the cascade's catch logs and goes on, the last
\* strategy is outside any try and its error reaches the caller
Throws(reason) ==
    /\ IF strat < NumStrategies(kind)
       THEN /\ failures' = Append(failures, [strategy |-> strat,
                                             name |-> StrategyName(kind, strat),
                                             reason |-> reason])
            /\ strat' = strat + 1
            /\ pc' = "try"
            /\ error' = error
       ELSE /\ pc' = "raised"
            /\ error' = <<[strategy |-> strat, reason |-> reason]>>
            /\ UNCHANGED <<strat, failures>>
    /\ NoWait
    /\ UNCHANGED <<winner, result>>

Settling(c) == pc = "await" /\ wait = c /\ ~silent

(***************************************************************************)
(* Actions of the cascades                                                 *)
(***************************************************************************)
InputExts(k) == IF k = "d2p" THEN {".docx", ".DOCX"} ELSE {".pdf", ".PDF"}
OutputExt(k) == IF k = "d2p" THEN ".pdf" ELSE ".docx"
InputPaths == {Path(d, "in", e) : d \in Dirs, e \in {".pdf", ".PDF", ".docx", ".DOCX"}}

\* convertPdfToWord(inputPath, outputPath) / convertDocxToPdfNative(...)
ConvertCall(k, ip, op) ==
    /\ pc = "idle"
    /\ ExistsSync(fs, ip)
    /\ ip.ext \in InputExts(k)
    /\ kind' = k /\ inPath' = ip /\ outPath' = op
    /\ pc' = "try" /\ strat' = 1
    /\ UNCHANGED <<sub, wait, timeoutMs, silent, calls, failures, sublog,
                   winner, result, error, fs, enhCalls>>
    /\ UNCHANGED nonCascVars

\* the cascade invokes its next strategy, which runs to its first await
TryStrategy ==
    /\ pc = "try"
    /\ calls' = Append(calls, StrategyName(kind, strat))
    /\ sub' = 1
    /\ Await(FirstCollaborator(kind, strat))
    /\ enhCalls' = IF kind = "basic" /\ strat = 4 THEN enhCalls + 1 ELSE enhCalls
    /\ UNCHANGED <<kind, inPath, outPath, strat, failures, sublog, winner,
                   result, error, fs>>
    /\ UNCHANGED nonCascVars

\* The office-suite strategy after its command settled: fsys is the disk the
\* command left, threw tells whether execAsync rejected.
AfterSoffice(fsys, threw, reason) ==
    LET cf == ConvertedFile(kind, fsys, inPath)
        last == sub = NumMethods(kind)
    IN  IF threw
        THEN /\ fs' = fsys
             /\ sublog' = IF kind = "d2p" THEN sublog
                          ELSE Append(sublog, [strategy |-> strat, step |-> sub, reason |-> reason])
             /\ IF last
                THEN Throws(reason) /\ sub' = sub
                ELSE /\ sub' = sub + 1
                     /\ Await("soffice")
                     /\ UNCHANGED <<strat, failures, winner, result, error>>
        ELSE /\ sublog' = sublog
             /\ IF cf # NoPath
                THEN /\ fs' = Move(fsys, cf, outPath, strat)
                     /\ Returns /\ sub' = sub
                ELSE /\ fs' = fsys
                     /\ IF last
                        THEN Throws("no converted file") /\ sub' = sub
                        ELSE /\ sub' = sub + 1
                             /\ Await("soffice")
                             /\ UNCHANGED <<strat, failures, winner, result, error>>

\* the soffice process exits: with an error, with its output file written
\* to --outdir, or with status 0 and no file
SofficeSettle(outcome, size) ==
    /\ Settling("soffice")
    /\ CASE outcome = "error" -> AfterSoffice(fs, TRUE, "soffice failed")
         [] outcome = "ok_file" ->
              AfterSoffice(WriteFile(fs, SofficeOutput(kind, inPath, outPath, sub), size, strat),
                           FALSE, None)
         [] OTHER -> AfterSoffice(fs, FALSE, None)
    /\ UNCHANGED <<kind, inPath, outPath, calls, enhCalls>>
    /\ UNCHANGED nonCascVars

\* execAsync's timeout fires: the process is killed and the await rejects
Timeout ==
    /\ pc = "await"
    /\ timeoutMs > 0
    /\ AfterSoffice(fs, TRUE, "timeout")
    /\ UNCHANGED <<kind, inPath, outPath, calls, enhCalls>>
    /\ UNCHANGED nonCascVars

\* new Converter(input).convert(outputPath, options) settles
Pdf2DocxSettle(outcome, size) ==
    /\ Settling("pdf2docx")
    /\ IF outcome = "throw"
       THEN Throws("pdf2docx failed") /\ fs' = fs
       ELSE Returns /\ fs' = WriteFile(fs, outPath, size, strat)
    /\ UNCHANGED <<kind, inPath, outPath, sub, calls, sublog, enhCalls>>
    /\ UNCHANGED nonCascVars

\* createDocxFromTextAdvanced references AlignmentType, which the module
\* never imports, on every heading line and every emphasized line
AdvancedAssemblerThrows(textKind) == textKind = "structured"

\* pdf(dataBuffer) settles; then the text is assembled into a DOCX
PdfParseSettle(outcome) ==
    /\ Settling("pdfparse")
    /\ LET inTry == kind = "basic" /\ strat = 3 /\ sub = 2
           advanced == kind = "adv" /\ strat = 3
       IN  IF outcome = "throw"
           THEN /\ fs' = fs
                /\ IF inTry
                   THEN \* caught inside convertWithAlternativeParsing,
                        \* which calls the extraction again
                        /\ sublog' = Append(sublog, [strategy |-> strat, step |-> sub,
                                                     reason |-> "pdf-parse failed"])
                        /\ sub' = 3
                        /\ enhCalls' = enhCalls + 1
                        /\ Await("pdfparse")
                        /\ UNCHANGED <<strat, failures, winner, result, error>>
                   ELSE Throws("pdf-parse failed") /\ UNCHANGED <<sub, sublog, enhCalls>>
           ELSE IF advanced /\ AdvancedAssemblerThrows(outcome)
                THEN /\ Throws("AlignmentType is not defined")
                     /\ UNCHANGED <<fs, sub, sublog, enhCalls>>
                ELSE /\ fs' = WriteFile(fs, outPath, 1, strat)
                     /\ Returns
                     /\ UNCHANGED <<sub, sublog, enhCalls>>
    /\ UNCHANGED <<kind, inPath, outPath, calls>>
    /\ UNCHANGED nonCascVars

\* fromPath(input, options)(1) settles; both ways the method goes on to
\* convertWithEnhancedTextExtraction
Pdf2PicSettle(outcome) ==
    /\ Settling("pdf2pic")
    /\ IF outcome = "throw"
       THEN /\ sublog' = Append(sublog, [strategy |-> strat, step |-> sub,
                                         reason |-> "pdf2pic failed"])
            /\ sub' = 3
            /\ fs' = fs
       ELSE /\ sublog' = sublog
            /\ sub' = 2
            /\ fs' = WriteFile(fs, Path(Dirname(outPath), "page", ".png"), 1, strat)
    /\ enhCalls' = enhCalls + 1
    /\ Await("pdfparse")
    /\ UNCHANGED <<kind, inPath, outPath, strat, calls, failures, winner, result, error>>
    /\ UNCHANGED nonCascVars

\* libreConvert.convert(docxBuffer, '.pdf', undefined, callback) calls back
LibreConvertSettle(outcome, size) ==
    /\ Settling("libreconvert")
    /\ IF outcome = "throw"
       THEN Throws("libreoffice-convert failed") /\ fs' = fs
       ELSE Returns /\ fs' = WriteFile(fs, outPath, size, strat)
    /\ UNCHANGED <<kind, inPath, outPath, sub, calls, sublog, enhCalls>>
    /\ UNCHANGED nonCascVars

\* mammoth.convertToHtml settles; on success convertHtmlToPdf starts
MammothSettle(outcome) ==
    /\ Settling("mammoth")
    /\ IF outcome = "throw"
       THEN Throws("mammoth failed") /\ sub' = sub
       ELSE /\ sub' = 2
            /\ Await("puppeteer")
            /\ UNCHANGED <<strat, failures, winner, result, error>>
    /\ UNCHANGED <<kind, inPath, outPath, calls, sublog, fs, enhCalls>>
    /\ UNCHANGED nonCascVars

\* puppeteer launch / setContent / page.pdf({ path: outputPath }) settle
PuppeteerSettle(outcome) ==
    /\ Settling("puppeteer")
    /\ IF outcome = "throw"
       THEN Throws("Failed to convert HTML to PDF") /\ fs' = fs
       ELSE Returns /\ fs' = WriteFile(fs, outPath, 1, strat)
    /\ UNCHANGED <<kind, inPath, outPath, sub, calls, sublog, enhCalls>>
    /\ UNCHANGED nonCascVars

CascInit ==
    /\ kind = None /\ inPath = NoPath /\ outPath = NoPath
    /\ pc = "idle" /\ strat = 0 /\ sub = 0
    /\ wait = None /\ timeoutMs = 0 /\ silent = FALSE
    /\ calls = <<>> /\ failures = <<>> /\ sublog = <<>>
    /\ winner = 0 /\ result = NoPath /\ error = <<>>
    /\ enhCalls = 0
    /\ \E p \in InputPaths : fs = [q \in Paths |-> IF q = p THEN File(1, 0) ELSE NoFile]

SubstIdle ==
    /\ tokens = <<>> /\ text = <<>> /\ valueMap = <<>> /\ out = <<>> /\ spc = "off"

\* getFileStats has not returned
NoStats == [variableCount |-> -1, variables |-> <<>>]

\* extractTextAndVariables is not running
ExtractIdle ==
    /\ headers = <<>> /\ hfFail = 0 /\ variables = <<>> /\ stats = NoStats
    /\ again = <<>> /\ epc = "off"

\* the assembler has made nothing
NoDoc == [threw |-> FALSE, children |-> <<>>, written |-> FALSE]

\* no reconstruction is running
ReconIdle ==
    /\ raw = <<>> /\ blocks = <<>> /\ enhanced = <<>> /\ doc = NoDoc /\ via = None
    /\ rpc = "off"

\* the registry is not in use
RegistryIdle ==
    /\ registry = <<>> /\ templatesFile = <<>> /\ served = <<>>

\* the server handles no request
ServerIdle ==
    /\ reqs = <<>> /\ temp = <<>>

TemplatesIdle ==
    /\ templates = <<>> /\ uploadsDir = {} /\ templatesDataFile = <<>>
    /\ uuids = 0 /\ rq = <<>> /\ nreq = 0
    /\ tempDir = {} /\ downloaded = {} /\ console = {}

Init == CascInit /\ SubstIdle /\ ExtractIdle /\ ReconIdle /\ RegistryIdle /\ ServerIdle /\ TemplatesIdle

Next ==
    \/ \E k \in Kinds, ip \in InputPaths :
          ConvertCall(k, ip, Path("temp", "out", OutputExt(k)))
    \/ TryStrategy
    \/ \E o \in {"error", "ok_file", "ok_nofile"}, z \in Sizes : SofficeSettle(o, z)
    \/ Timeout
    \/ \E o \in {"throw", "ok"}, z \in Sizes : Pdf2DocxSettle(o, z)
    \/ \E o \in {"throw", "plain", "structured"} : PdfParseSettle(o)
    \/ \E o \in {"throw", "ok"} : Pdf2PicSettle(o)
    \/ \E o \in {"throw", "ok"}, z \in Sizes : LibreConvertSettle(o, z)
    \/ \E o \in {"throw", "ok"} : MammothSettle(o)
    \/ \E o \in {"throw", "ok"} : PuppeteerSettle(o)

Spec == Init /\ [][Next]_vars

(***************************************************************************)
(* Properties of the cascades                                              *)
(***************************************************************************)
Terminal == pc \in {"done", "raised"}
FailedNames == {failures[j].name : j \in 1..Len(failures)}

\* C1 (short-circuit): as soon as a strategy has returned, the cascade is
\* done with that strategy's result, and the strategies it invoked are
\* exactly the first `winner` ones: none after the winner was invoked.
C1_ShortCircuit ==
    winner # 0 =>
        /\ pc = "done"
        /\ result = outPath
        /\ Len(calls) = winner
        /\ strat = winner

C1_Witness == pc = "done" /\ kind = "adv" /\ winner = 2 /\ Len(calls) = 2

\* C2 (fall-through): every strategy that failed before the last one is
\* recorded once, in order, and the next one is attempted; the cascade
\* returns what the first strategy that succeeded put at the output path,
\* and raises only when every strategy was invoked and failed.  With
\* strategy 1 timing out and strategy 2 succeeding, the result is the
\* artifact of strategy 2 and one failure is recorded.
C2_FallThrough ==
    /\ \A i \in 1..Len(failures) : failures[i].strategy = i
    /\ pc = "try" => Len(failures) = strat - 1 /\ Len(calls) = strat - 1
    /\ pc = "await" => Len(failures) = strat - 1 /\ Len(calls) = strat
    /\ pc = "done" =>
          /\ winner = Len(failures) + 1
          /\ Len(calls) = winner
          /\ result = outPath
          /\ fs[outPath].at = winner
    /\ pc = "raised" =>
          /\ Len(calls) = NumStrategies(kind)
          /\ Len(failures) = NumStrategies(kind) - 1
          /\ winner = 0
    /\ (pc = "done" /\ winner = 2 /\ failures[1].reason = "timeout") =>
          /\ Len(failures) = 1
          /\ fs[outPath].at = 2

C2_Witness ==
    /\ pc = "done" /\ kind = "adv" /\ winner = 2
    /\ Len(failures) = 1 /\ failures[1].reason = "timeout"
    /\ fs[outPath].size = 1 /\ fs[outPath].by = 2

\* C3 (exhaustion): the error the cascade raises lists one failure reason
\* per strategy, in strategy order.
C3_AggregateError ==
    pc = "raised" =>
        /\ Len(error) = NumStrategies(kind)
        /\ \A i \in 1..Len(error) : error[i].strategy = i

\* C4 (empty output): a strategy whose artifact at the output path is
\* missing or has zero bytes is never accepted as the cascade's success.
C4_EmptyOutputIsFailure ==
    winner # 0 => ExistsSync(fs, outPath) /\ fs[outPath].size > 0

\* C5 (intermediate artifacts): once the office-suite strategy has ended,
\* no file it produced remains anywhere but at the requested output path.
C5_NoOrphanedIntermediate ==
    (strat > 1 \/ Terminal) =>
        \A p \in Paths : (ExistsSync(fs, p) /\ fs[p].by = 1) => p = outPath

\* C6 (bounded strategies): every await of a collaborator is armed with a
\* timeout, and a call that has not returned or raised can take a step.
C6_BoundedAndTerminates ==
    /\ pc = "await" => timeoutMs > 0
    /\ pc \in {"idle", "done", "raised"} \/ ENABLED Next

\* C7 (returned path): when a cascade call resolves, the path it returns is
\* the requested output path and a file exists there.
C7_ReturnsOutputPath ==
    pc = "done" => result = outPath /\ ExistsSync(fs, outPath)

C7_Witness == pc = "done" /\ kind = "d2p" /\ winner = 3 /\ ExistsSync(fs, outPath)

\* C8 (order of preference): in DOCX-to-PDF conversion the
\* libreoffice-convert library is invoked only after the command line has
\* failed, and the HTML fallback only after both have failed.
C8_MethodOrder ==
    kind = "d2p" =>
        \A i \in 1..Len(calls) :
            /\ calls[i] = "convertDocxToPdfLibreConvert" =>
                  /\ "convertDocxToPdfLibreOffice" \in FailedNames
                  /\ \E j \in 1..(i - 1) : calls[j] = "convertDocxToPdfLibreOffice"
            /\ calls[i] = "convertHtmlToPdf" =>
                  /\ {"convertDocxToPdfLibreOffice",
                       "convertDocxToPdfLibreConvert"} \subseteq FailedNames
                  /\ \E j \in 1..(i - 1) : calls[j] = "convertDocxToPdfLibreConvert"

C8_Witness ==
    /\ kind = "d2p" /\ Len(calls) = 3 /\ calls[3] = "convertHtmlToPdf"
    /\ Len(failures) = 2

(***************************************************************************)
(* The text variable engine: DocxProcessor.replaceVariables                *)
(*                                                                         *)
(* A string is a sequence of one-character strings.  The method builds,    *)
(* for every key of the variables object, the regular expression           *)
(*     \{\{\s*<key>\s*\}\}   with flag g                                   *)
(* from the key's raw characters, so a character of the key that is a      *)
(* regular-expression operator acts as that operator.                      *)
(***************************************************************************)
MaxTokens == 2      \* tokens of a generated text
MaxKeys == 2        \* keys of a generated variables object
MaxPad == 1         \* blanks on each side of a placeholder's name

Open == <<"{", "{">>
Close == <<"}", "}">>

\* \s
IsSpace(c) == c \in {" ", "\t", "\n", "\r"}

\* one character of the key as a pattern atom that consumes a character:
\* "." matches any character but a line terminator, anything else itself
AtomMatches(a, c) == IF a = "." THEN c # "\n" ELSE a = c

\* The key as a pattern, from its i-th character on, matched from position q
\* of t: the position after the match, 0 when it does not match.  "$" is
\* the end-of-input assertion and consumes nothing.
RECURSIVE MatchKey(_, _, _, _)
MatchKey(key, i, t, q) ==
    IF i > Len(key) THEN q
    ELSE IF key[i] = "$"
         THEN (IF q = Len(t) + 1 THEN MatchKey(key, i + 1, t, q) ELSE 0)
         ELSE IF q <= Len(t) /\ AtomMatches(key[i], t[q])
              THEN MatchKey(key, i + 1, t, q + 1)
              ELSE 0

\* the number of consecutive \s characters of t from position q on
RECURSIVE SpaceRun(_, _)
SpaceRun(t, q) == IF q <= Len(t) /\ IsSpace(t[q]) THEN 1 + SpaceRun(t, q + 1) ELSE 0

\* after the key matched up to r: \s*\}\} ; the position after the match, or 0
MatchTail(t, r) ==
    LET e == r + SpaceRun(t, r)
    IN  IF e + 1 <= Len(t) /\ t[e] = "}" /\ t[e + 1] = "}" THEN e + 2 ELSE 0

\* the whole expression tried at position p: the position after the match
\* (greedy \s*: the longest run of blanks that lets the rest match), or 0
MatchAt(key, t, p) ==
    IF ~(p + 1 <= Len(t) /\ t[p] = "{" /\ t[p + 1] = "{") THEN 0
    ELSE LET ends == [k \in 0..SpaceRun(t, p + 2) |->
                        LET r == MatchKey(key, 1, t, p + 2 + k)
                        IN  IF r = 0 THEN 0 ELSE MatchTail(t, r)]
             ok == {k \in DOMAIN ends : ends[k] # 0}
         IN  IF ok = {} THEN 0
             ELSE ends[CHOOSE k \in ok : \A h \in ok : h <= k]

\* variables[variableName] || ''
OrEmpty(v) == IF v = <<>> THEN <<>> ELSE v

\* processedText.replace(regex, value) with flag g, from position p on
RECURSIVE ReplaceAll(_, _, _, _)
ReplaceAll(key, value, t, p) ==
    IF p > Len(t) THEN <<>>
    ELSE LET e == MatchAt(key, t, p)
         IN  IF e # 0 THEN value \o ReplaceAll(key, value, t, e)
             ELSE <<t[p]>> \o ReplaceAll(key, value, t, p + 1)

\* Object.keys(variables).forEach(...): the keys in insertion order, each
\* replaced in the text the previous ones left
RECURSIVE replaceVariables(_, _)
replaceVariables(t, vm) ==
    IF vm = <<>> THEN t
    ELSE replaceVariables(ReplaceAll(vm[1].key, OrEmpty(vm[1].value), t, 1), Tail(vm))

(***************************************************************************)
(* Bounded inputs of replaceVariables                                      *)
(***************************************************************************)
Names == {<<"a">>, <<"A">>, <<"a", "$">>, <<".">>}
Values == {<<"v">>, <<"w">>}
Literals == {<<"x">>}

Lit(str) == [t |-> "lit", s |-> str, pad |-> 0]
Ph(name, pad) == [t |-> "ph", s |-> name, pad |-> pad]
TokenSet == {Lit(l) : l \in Literals} \cup {Ph(n, k) : n \in Names, k \in 0..MaxPad}

Blanks(k) == [i \in 1..k |-> " "]

\* the characters of a token: a literal, or {{ name }} with its blanks
Render(tok) ==
    IF tok.t = "lit" THEN tok.s
    ELSE Open \o Blanks(tok.pad) \o tok.s \o Blanks(tok.pad) \o Close

RECURSIVE RenderAll(_)
RenderAll(toks) == IF toks = <<>> THEN <<>> ELSE Render(Head(toks)) \o RenderAll(Tail(toks))

SeqsUpTo(S, n) == UNION {[1..k -> S] : k \in 0..n}

Texts == SeqsUpTo(TokenSet, MaxTokens)

\* variables objects: distinct keys, in insertion order
ValueMaps ==
    {vm \in SeqsUpTo([key : Names, value : Values], MaxKeys) :
        \A i, j \in 1..Len(vm) : i # j => vm[i].key # vm[j].key}

\* "Dear {{Name}}, meeting at {{Location}}." with { Name: "Alice" }
ScenarioTokens ==
    << Lit(<<"D", "e", "a", "r", " ">>), Ph(<<"N", "a", "m", "e">>, 0), Lit(<<",", " ", "m", "e", "e", "t", "i", "n", "g", " ", "a", "t", " ">>), Ph(<<"L", "o", "c", "a", "t", "i", "o", "n">>, 0), Lit(<<".">>) >>
ScenarioMap == << [key |-> <<"N", "a", "m", "e">>, value |-> <<"A", "l", "i", "c", "e">>] >>
ScenarioExpected == <<"D", "e", "a", "r", " ", "A", "l", "i", "c", "e", ",", " ", "m", "e", "e", "t", "i", "n", "g", " ", "a", "t", " ", ".">>

Keys(vm) == {vm[i].key : i \in 1..Len(vm)}
ValueOf(vm, k) == (CHOOSE i \in 1..Len(vm) : vm[i].key = k)

SubstInit ==
    /\ \/ tokens \in Texts /\ valueMap \in ValueMaps
       \/ tokens = ScenarioTokens /\ valueMap = ScenarioMap
    /\ text = RenderAll(tokens)
    /\ out = <<>>
    /\ spc = "ready"

CascOff ==
    /\ kind = None /\ inPath = NoPath /\ outPath = NoPath
    /\ pc = "off" /\ strat = 0 /\ sub = 0
    /\ wait = None /\ timeoutMs = 0 /\ silent = FALSE
    /\ calls = <<>> /\ failures = <<>> /\ sublog = <<>>
    /\ winner = 0 /\ result = NoPath /\ error = <<>>
    /\ enhCalls = 0
    /\ fs = [q \in Paths |-> NoFile]

\* DocxProcessor.replaceVariables(text, variables)
ReplaceVariables ==
    /\ spc = "ready"
    /\ out' = replaceVariables(text, valueMap)
    /\ spc' = "replaced"
    /\ UNCHANGED <<tokens, text, valueMap>>
    /\ UNCHANGED notSubstVars

InitSubst == SubstInit /\ CascOff /\ ExtractIdle /\ ReconIdle /\ RegistryIdle /\ ServerIdle /\ TemplatesIdle

NextSubst == ReplaceVariables

SpecSubst == InitSubst /\ [][NextSubst]_vars

(***************************************************************************)
(* Properties of replaceVariables                                          *)
(***************************************************************************)
PhTokens == {i \in 1..Len(tokens) : tokens[i].t = "ph"}

\* s occurs in t as a contiguous run
Occurs(s, t) == \E p \in 1..(Len(t) - Len(s) + 1) : SubSeq(t, p, p + Len(s) - 1) = s

\* C9 (missing keys): the spec's scenario yields "Dear Alice, meeting at ."
\* and no placeholder of the source text is left in the output, whether
\* its name is a key of the variables object or not.
C9_MissingKeysBecomeEmpty ==
    spc = "replaced" =>
        /\ (tokens = ScenarioTokens /\ valueMap = ScenarioMap) => out = ScenarioExpected
        /\ \A i \in PhTokens : ~Occurs(Render(tokens[i]), out)

Lower(c) == IF c = "A" THEN "a" ELSE c
LowerAll(str) == [i \in 1..Len(str) |-> Lower(str[i])]

\* n is no key, and differs from some key only in letter case
CaseVariantOfKey(vm, n) ==
    n \notin Keys(vm) /\ \E k \in Keys(vm) : LowerAll(k) = LowerAll(n)

\* what the matching rule asks of one token: a placeholder of a key becomes
\* the key's value, with or without blanks; anything else stays as it is
RECURSIVE RuleOutput(_, _)
RuleOutput(toks, vm) ==
    IF toks = <<>> THEN <<>>
    ELSE LET tok == Head(toks)
             piece == IF tok.t = "ph" /\ tok.s \in Keys(vm)
                      THEN vm[ValueOf(vm, tok.s)].value
                      ELSE Render(tok)
         IN  piece \o RuleOutput(Tail(toks), vm)

\* C10 (matching rule): over texts whose placeholders are each a key's
\* placeholder or a letter-case variant of one, every occurrence of a key's
\* placeholder, with any blanks inside the markers, is replaced by the key's
\* value, and the letter-case variants are left untouched.
C10_MatchingRule ==
    (spc = "replaced"
       /\ \A i \in PhTokens : tokens[i].s \in Keys(valueMap)
                                \/ CaseVariantOfKey(valueMap, tokens[i].s)) =>
        out = RuleOutput(tokens, valueMap)

(***************************************************************************)
(* DocxProcessor.extractTextAndVariables and getFileStats                  *)
(*                                                                         *)
(* Both scan with /\{\{\s*([^}]+)\s*\}\}/g and add match[1].trim() to a    *)
(* Set.  extractTextAndVariables scans the body text mammoth returned and  *)
(* then, inside a try whose catch is empty, the header and footer parts of *)
(* the archive with their tags stripped.                                   *)
(***************************************************************************)

\* the number of consecutive characters other than "}" of t from q on
RECURSIVE NonCloseRun(_, _)
NonCloseRun(t, q) == IF q <= Len(t) /\ t[q] # "}" THEN 1 + NonCloseRun(t, q + 1) ELSE 0

NoMatch == [end |-> 0, group |-> <<>>]

\* variableRegex tried at position p: the position after the match and the
\* captured group.  \s* and [^}]+ are greedy: of the splits that let the
\* rest match, the one with the most blanks first, then the longest group.
VarMatchAt(t, p) ==
    IF ~(p + 1 <= Len(t) /\ t[p] = "{" /\ t[p + 1] = "{") THEN NoMatch
    ELSE LET q == p + 2
             ok == {km \in (0..SpaceRun(t, q)) \X (1..Len(t)) :
                      /\ km[2] <= NonCloseRun(t, q + km[1])
                      /\ MatchTail(t, q + km[1] + km[2]) # 0}
         IN  IF ok = {} THEN NoMatch
             ELSE LET km == CHOOSE x \in ok :
                               \A y \in ok : y[1] < x[1] \/ (y[1] = x[1] /\ y[2] <= x[2])
                      g == q + km[1]
                  IN  [end |-> MatchTail(t, g + km[2]),
                       group |-> SubSeq(t, g, g + km[2] - 1)]

\* String.prototype.trim
RECURSIVE TrimStart(_)
TrimStart(str) == IF str # <<>> /\ IsSpace(Head(str)) THEN TrimStart(Tail(str)) ELSE str

RECURSIVE TrimEnd(_)
TrimEnd(str) ==
    IF str # <<>> /\ IsSpace(str[Len(str)]) THEN TrimEnd(SubSeq(str, 1, Len(str) - 1)) ELSE str

Trim(str) == TrimEnd(TrimStart(str))

Range(seq) == {seq[i] : i \in 1..Len(seq)}

\* Faulty variant: an array that is pushed to instead of a Set
SetAddPush(set, x) == Append(set, x)

\* Set.prototype.add: insertion order, one entry per value
SetAdd(set, x) == IF x \in Range(set) THEN set ELSE Append(set, x)

\* while ((match = variableRegex.exec(t)) !== null) variables.add(match[1].trim())
\* from lastIndex p on
RECURSIVE ScanVariables(_, _, _)
ScanVariables(t, p, set) ==
    IF p > Len(t) THEN set
    ELSE LET m == VarMatchAt(t, p)
         IN  IF m.end # 0 THEN ScanVariables(t, m.end, SetAdd(set, Trim(m.group)))
             ELSE ScanVariables(t, p + 1, set)

\* xml.replace(/<[^>]+>/g, ''): a "<", one or more characters other than
\* ">", and a ">" are dropped
RECURSIVE NonGtRun(_, _)
NonGtRun(t, q) == IF q <= Len(t) /\ t[q] # ">" THEN 1 + NonGtRun(t, q + 1) ELSE 0

RECURSIVE StripTags(_, _)
StripTags(t, p) ==
    IF p > Len(t) THEN <<>>
    ELSE LET n == NonGtRun(t, p + 1)
         IN  IF t[p] = "<" /\ n >= 1 /\ p + n + 1 <= Len(t)
             THEN StripTags(t, p + n + 2)
             ELSE <<t[p]>> \o StripTags(t, p + 1)

\* Faulty variant: the catch gives up what the scan had collected
HeaderScanFrom(set, parts, failAt, start) == IF failAt # 0 THEN <<>> ELSE set

\* headerFooterFiles.forEach(...) from part i on; the part failAt throws
\* (asText), which leaves forEach and lands in the empty catch; failAt 1 with
\* no part at all is readFile or PizZip throwing before the loop
RECURSIVE HeaderScan(_, _, _, _)
HeaderScan(set, parts, failAt, i) ==
    IF i > Len(parts) \/ i = failAt THEN set
    ELSE HeaderScan(ScanVariables(StripTags(parts[i].xml, 1), 1, set), parts, failAt, i + 1)

(***************************************************************************)
(* Documents: a body text and the header/footer parts of the archive       *)
(***************************************************************************)
Tag(name) == <<"<">> \o name \o <<">">>

\* <t>{{ a }}</t>
HeaderA == [xml |-> Tag(<<"t">>) \o Render(Ph(<<"a">>, 1)) \o Tag(<<"/", "t">>),
            names |-> {<<"a">>}]
\* {{<b>A</b>}}<t>{{a}}</t> : a placeholder split over two runs
FooterA == [xml |-> Open \o Tag(<<"b">>) \o <<"A">> \o Tag(<<"/", "b">>) \o Close
                      \o Tag(<<"t">>) \o Render(Ph(<<"a">>, 0)) \o Tag(<<"/", "t">>),
            names |-> {<<"A">>, <<"a">>}]

HeaderFooterFiles == {<<>>, <<HeaderA>>, <<HeaderA, FooterA>>, <<FooterA, HeaderA>>}

ExtractInit ==
    /\ tokens \in Texts
    /\ text = RenderAll(tokens)
    /\ valueMap = <<>> /\ out = <<>> /\ spc = "off"
    /\ headers \in HeaderFooterFiles
    /\ hfFail = 0 /\ variables = <<>> /\ stats = NoStats /\ again = <<>>
    /\ epc = "ready"

\* await mammoth.extractRawText resolves; the body loop runs
ExtractBody ==
    /\ epc = "ready"
    /\ variables' = ScanVariables(text, 1, <<>>)
    /\ epc' = "body"
    /\ UNCHANGED <<headers, hfFail, stats, again>>
    /\ UNCHANGED notExtVars

\* await mammoth.extractRawText rejects: the outer catch rethrows
ExtractFails ==
    /\ epc = "ready"
    /\ epc' = "failed"
    /\ UNCHANGED <<headers, hfFail, variables, stats, again>>
    /\ UNCHANGED notExtVars

\* where the inner try can throw: nowhere (0), at a part, or, with no part
\* to scan, before the loop
FailPoints(parts) == 0..(IF parts = <<>> THEN 1 ELSE Len(parts))

\* the inner try (readFile, PizZip, the parts' loop), its empty catch, and
\* the return
ExtractHeaderFooter(failAt) ==
    /\ epc = "body"
    /\ failAt \in FailPoints(headers)
    /\ hfFail' = failAt
    /\ variables' = HeaderScan(variables, headers, failAt, 1)
    /\ epc' = "extracted"
    /\ UNCHANGED <<headers, stats, again>>
    /\ UNCHANGED notExtVars

\* DocxProcessor.getFileStats on the same document
GetFileStats ==
    /\ epc = "extracted" /\ stats = NoStats
    /\ LET set == ScanVariables(text, 1, <<>>)
       IN  stats' = [variableCount |-> Len(set), variables |-> set]
    /\ UNCHANGED <<headers, hfFail, variables, again, epc>>
    /\ UNCHANGED notExtVars

\* a variables object that gives every extracted name the value v
ValueMapOf(names, v) == [i \in 1..Len(names) |-> [key |-> names[i], value |-> v]]

\* replaceVariables(text, variables) with a value for every extracted name
SubstituteExtracted(v) ==
    /\ epc = "extracted"
    /\ valueMap' = ValueMapOf(variables, v)
    /\ out' = replaceVariables(text, valueMap')
    /\ epc' = "substituted"
    /\ UNCHANGED <<tokens, text, spc>>
    /\ UNCHANGED <<headers, hfFail, variables, stats, again>>
    /\ UNCHANGED notSubstExtVars

\* the variable scan run over the substituted text
ExtractAgain ==
    /\ epc = "substituted"
    /\ again' = ScanVariables(out, 1, <<>>)
    /\ epc' = "reextracted"
    /\ UNCHANGED <<headers, hfFail, variables, stats>>
    /\ UNCHANGED notExtVars

InitExtract == ExtractInit /\ CascOff /\ ReconIdle /\ RegistryIdle /\ ServerIdle /\ TemplatesIdle

NextExtract ==
    \/ ExtractBody
    \/ ExtractFails
    \/ \E f \in 0..2 : ExtractHeaderFooter(f)
    \/ GetFileStats
    \/ \E v \in Values : SubstituteExtracted(v)
    \/ ExtractAgain

SpecExtract == InitExtract /\ [][NextExtract]_vars

(***************************************************************************)
(* Properties of the variable scan                                         *)
(***************************************************************************)
NoDuplicates(seq) == \A i, j \in 1..Len(seq) : i # j => seq[i] # seq[j]

\* the same text with the blanks inside the markers removed / set to k
Repad(toks, k) ==
    [i \in 1..Len(toks) |-> IF toks[i].t = "ph" THEN Ph(toks[i].s, k) ELSE toks[i]]

BodyNames == {tokens[i].s : i \in PhTokens}
HeaderNames == UNION {headers[i].names : i \in 1..Len(headers)}

\* C11 (whitespace, duplicates): the names extracted do not depend on the
\* blanks between the markers and the name, each name placed in the body or
\* in a header/footer part is extracted, and it is listed exactly once
\* however often and with whatever blanks it occurs; getFileStats agrees on
\* the body.
C11_WhitespaceAndDuplicates ==
    /\ (epc = "extracted" /\ hfFail = 0) =>
          /\ Range(variables) = BodyNames \cup HeaderNames
          /\ NoDuplicates(variables)
          /\ \A k \in 0..MaxPad :
                Range(ScanVariables(RenderAll(Repad(tokens, k)), 1, <<>>)) = BodyNames
    /\ stats # NoStats =>
          /\ Range(stats.variables) = BodyNames
          /\ stats.variableCount = Cardinality(BodyNames)

\* a name occurs twice, once with and once without blanks, or in the body
\* and in a header
C11_Witness ==
    /\ epc = "extracted" /\ hfFail = 0 /\ stats # NoStats
    /\ Len(tokens) = 2 /\ tokens[1].t = "ph" /\ tokens[2].t = "ph"
    /\ tokens[1].s = tokens[2].s /\ tokens[1].pad # tokens[2].pad
    /\ tokens[1].s \in HeaderNames
    /\ Len(variables) = 2

\* C12 (round trip): after every extracted name was given a literal
\* non-empty value and substituted, extracting again finds no name.
C12_RoundTrip == epc = "reextracted" => again = <<>>

\* C13 (header/footer failures): when the body was extracted, the call
\* returns, wherever the header/footer scan failed, and the result has
\* every name of the body text.
C13_HeaderFooterNonFatal ==
    /\ epc = "body" =>
          \A f \in FailPoints(headers) :
              BodyNames \subseteq Range(HeaderScan(variables, headers, f, 1))
    /\ epc = "extracted" => BodyNames \subseteq Range(variables)
    /\ epc = "failed" => (hfFail = 0 /\ variables = <<>>)

\* the second part failed after the first one was scanned
C13_Witness ==
    /\ epc = "extracted" /\ hfFail = 2 /\ Len(headers) = 2
    /\ BodyNames # {} /\ ~(HeaderNames \subseteq Range(variables))

(***************************************************************************)
(* Text reconstruction and document assembly                               *)
(*                                                                         *)
(*   AdvancedPdfToWordConverter.processTextWithAdvancedFormatting,         *)
(*   processTextBasic and the is... predicates;                            *)
(*   PdfToWordConverter.enhanceExtractedText;                              *)
(*   DocxProcessor.createDocxFromText and createDocxFromTextAdvanced.      *)
(*                                                                         *)
(* Texts are sequences of characters and the methods are computed          *)
(* character by character, as their regular expressions do.                *)
(***************************************************************************)
LowerLetters == <<"a", "b", "c", "d", "e", "f", "g", "h", "i", "j", "k", "l", "m", "n", "o", "p", "q", "r", "s", "t", "u", "v", "w", "x", "y", "z">>
UpperLetters == <<"A", "B", "C", "D", "E", "F", "G", "H", "I", "J", "K", "L", "M", "N", "O", "P", "Q", "R", "S", "T", "U", "V", "W", "X", "Y", "Z">>

\* [a-z], [A-Z], \d
IsLower(c) == \E i \in DOMAIN LowerLetters : LowerLetters[i] = c
IsUpper(c) == \E i \in DOMAIN UpperLetters : UpperLetters[i] = c
IsDigit(c) == c \in {"0", "1", "2", "3", "4", "5", "6", "7", "8", "9"}

\* String.prototype.toUpperCase
toUpperCase(str) ==
    [i \in 1..Len(str) |->
        IF IsLower(str[i])
        THEN UpperLetters[CHOOSE k \in DOMAIN LowerLetters : LowerLetters[k] = str[i]]
        ELSE str[i]]

StartsWith(str, pre) == Len(pre) <= Len(str) /\ SubSeq(str, 1, Len(pre)) = pre
EndsWith(str, suf) ==
    Len(suf) <= Len(str) /\ SubSeq(str, Len(str) - Len(suf) + 1, Len(str)) = suf

\* the positions of t, in order
Positions(t) == [i \in 1..Len(t) |-> i]

\* the characters of t at the positions at, in order
KeepAt(t, at) == [k \in 1..Len(at) |-> t[at[k]]]

\* position i of t and a line feed at position a lie in one run of blanks
SameBlankRun(t, a, i) ==
    t[a] = "\n" /\ \A j \in (IF a < i THEN a..i ELSE i..a) : IsSpace(t[j])

\* .replace(/\n\s*\n/g, '\n\n'): a match starts at the first line feed of
\* a run of blanks and, \s* being greedy, ends at the last line feed of the
\* run; what lies between the two is dropped
CollapseBlankLines(t) ==
    KeepAt(t, SelectSeq(Positions(t), LAMBDA i :
        ~(/\ \E a \in 1..(i - 1) : SameBlankRun(t, a, i)
          /\ \E b \in (i + 1)..Len(t) : SameBlankRun(t, b, i))))

\* .replace(/\r\n/g, '\n')
ReplaceCrLf(t) ==
    KeepAt(t, SelectSeq(Positions(t),
                        LAMBDA i : ~(t[i] = "\r" /\ i < Len(t) /\ t[i + 1] = "\n")))

\* processTextBasic; the first statements of the other two methods
processTextBasic(t) ==
    IF t = <<>> THEN <<>> ELSE Trim(ReplaceCrLf(CollapseBlankLines(t)))

\* String.prototype.split('\n')
SplitLines(t) ==
    LET feeds == SelectSeq(Positions(t), LAMBDA i : t[i] = "\n")
        cuts == <<0>> \o feeds \o <<Len(t) + 1>>
    IN  [k \in 1..(Len(feeds) + 1) |-> SubSeq(t, cuts[k] + 1, cuts[k + 1] - 1)]

\* Array.prototype.join('\n')
RECURSIVE JoinLines(_)
JoinLines(ls) ==
    IF ls = <<>> THEN <<>>
    ELSE IF Len(ls) = 1 THEN ls[1]
         ELSE ls[1] \o <<"\n">> \o JoinLines(Tail(ls))

isHeader(line) == line = toUpperCase(line) /\ Len(line) > 3 /\ Len(line) < 100

isSubHeader(line) ==
    /\ Len(line) > 5 /\ Len(line) < 80
    /\ \/ EndsWith(line, <<":">>)
       \/ Len(line) >= 2 /\ IsUpper(line[1]) /\ IsLower(line[2])

isTableRow(line) ==
    \/ \E i \in 1..(Len(line) - 1) : IsSpace(line[i]) /\ IsSpace(line[i + 1])
    \/ \E i \in 1..Len(line) : line[i] = "\t"

\* position i of t is in a run of two or more blanks
InBlankRun(t, i) ==
    /\ IsSpace(t[i])
    /\ \/ i > 1 /\ IsSpace(t[i - 1])
       \/ i < Len(t) /\ IsSpace(t[i + 1])

\* line.replace(/\s{2,}/g, '\t'): a tab stands for each run
formatTableRow(line) ==
    KeepAt([i \in 1..Len(line) |-> IF InBlankRun(line, i) THEN "\t" ELSE line[i]],
           SelectSeq(Positions(line),
                     LAMBDA i : ~InBlankRun(line, i) \/ i = 1 \/ ~IsSpace(line[i - 1])))

RECURSIVE DigitRun(_, _)
DigitRun(t, q) == IF q <= Len(t) /\ IsDigit(t[q]) THEN 1 + DigitRun(t, q + 1) ELSE 0

\* /^\d+\.\s/
isNumberedList(line) ==
    LET d == DigitRun(line, 1)
    IN  d >= 1 /\ d + 2 <= Len(line) /\ line[d + 1] = "." /\ IsSpace(line[d + 2])

\* the character U+2022
Bullet == "u2022"

\* /^[\u2022\-\*]\s/
isBulletPoint(line) ==
    Len(line) >= 2 /\ line[1] \in {Bullet, "-", "*"} /\ IsSpace(line[2])

isEmphasizedText(line) ==
    /\ Len(line) > 10 /\ Len(line) < 200
    /\ \/ Occurs(<<"*", "*">>, line)
       \/ Occurs(<<"_", "_">>, line)
       \/ line = toUpperCase(line)
       \/ Len(line) >= 1 /\ IsUpper(line[1])

\* Faulty variant: the order of enhanceExtractedText, table rows first
ClassifyTableFirst(line) ==
    IF isTableRow(line) THEN "TableRow"
    ELSE IF isHeader(line) THEN "Heading"
    ELSE IF isSubHeader(line) THEN "SubHeading"
    ELSE IF isNumberedList(line) THEN "NumberedItem"
    ELSE IF isBulletPoint(line) THEN "BulletItem"
    ELSE IF isEmphasizedText(line) THEN "Emphasized"
    ELSE "Paragraph"

\* the branch processTextWithAdvancedFormatting takes for a trimmed line
ClassifyAdvanced(line) ==
    IF line = <<>> THEN "Blank"
    ELSE IF isHeader(line) THEN "Heading"
    ELSE IF isSubHeader(line) THEN "SubHeading"
    ELSE IF isTableRow(line) THEN "TableRow"
    ELSE IF isNumberedList(line) THEN "NumberedItem"
    ELSE IF isBulletPoint(line) THEN "BulletItem"
    ELSE IF isEmphasizedText(line) THEN "Emphasized"
    ELSE "Paragraph"

\* what that branch pushes to processedLines
PushedLine(line, branch) ==
    CASE branch = "Blank" -> <<>>
      [] branch = "Heading" -> <<"#", " ">> \o line
      [] branch = "SubHeading" -> <<"#", "#", " ">> \o line
      [] branch = "TableRow" -> formatTableRow(line)
      [] branch = "NumberedItem" -> <<"#", "#", " ">> \o line
      [] branch = "BulletItem" -> <<"#", "#", "#", " ">> \o line
      [] branch = "Emphasized" -> <<"*", "*">> \o line \o <<"*", "*">>
      [] OTHER -> line

\* the branch enhanceExtractedText takes for a trimmed line
ClassifyEnhanced(line) ==
    IF line = <<>> THEN "Blank"
    ELSE IF isTableRow(line) THEN "TableRow"
    ELSE IF isHeader(line) THEN "Heading"
    ELSE IF isNumberedList(line) THEN "NumberedItem"
    ELSE IF isBulletPoint(line) THEN "BulletItem"
    ELSE "Paragraph"

\* the lines the loops of processTextWithAdvancedFormatting and
\* enhanceExtractedText see: the normalized text split, each line trimmed;
\* a block holds the trimmed line, the branch taken and the string pushed
TrimmedLines(t) ==
    IF t = <<>> THEN <<>>
    ELSE LET lines == SplitLines(processTextBasic(t))
         IN  [i \in 1..Len(lines) |-> Trim(lines[i])]

Block(line, branch) == [line |-> line, kind |-> branch, pushed |-> PushedLine(line, branch)]

processTextWithAdvancedFormatting(t) ==
    LET lines == TrimmedLines(t)
    IN  [i \in 1..Len(lines) |-> Block(lines[i], ClassifyAdvanced(lines[i]))]

enhanceExtractedText(t) ==
    LET lines == TrimmedLines(t)
    IN  [i \in 1..Len(lines) |-> Block(lines[i], ClassifyEnhanced(lines[i]))]

\* processedLines.join('\n')
JoinPushed(bs) == JoinLines([i \in 1..Len(bs) |-> bs[i].pushed])

(***************************************************************************)
(* The assembler: one child per non-blank line of the content              *)
(***************************************************************************)
RECURSIVE SelectNonBlank(_)
SelectNonBlank(ls) ==
    IF ls = <<>> THEN <<>>
    ELSE IF Trim(Head(ls)) # <<>> THEN <<Head(ls)>> \o SelectNonBlank(Tail(ls))
         ELSE SelectNonBlank(Tail(ls))

\* content.split('\n').filter(line => line.trim() !== '')
Paragraphs(content) == SelectNonBlank(SplitLines(content))

RECURSIVE HashRun(_, _)
HashRun(t, q) == IF q <= Len(t) /\ t[q] = "#" THEN 1 + HashRun(t, q + 1) ELSE 0

\* position i of t belongs to a separator of /\s{2,}|\t/
InSeparator(t, i) == InBlankRun(t, i) \/ t[i] = "\t"

\* paragraph.split(/\s{2,}|\t/).filter(cell => cell.trim() !== ''): the
\* stretches between separators; the empty strings split yields at either
\* end of the line are the ones the filter removes
Cells(paragraph) ==
    LET at == Positions(paragraph)
        first == SelectSeq(at, LAMBDA i : ~InSeparator(paragraph, i)
                                            /\ (i = 1 \/ InSeparator(paragraph, i - 1)))
        last == SelectSeq(at, LAMBDA i : ~InSeparator(paragraph, i)
                                           /\ (i = Len(paragraph) \/ InSeparator(paragraph, i + 1)))
    IN  [k \in 1..Len(first) |-> SubSeq(paragraph, first[k], last[k])]

Construct(k, level, paragraph) == [kind |-> k, level |-> level, from |-> paragraph]

\* the map callback returned without a value
Undefined(paragraph) == Construct("undefined", 0, paragraph)

\* evaluating AlignmentType.CENTER: docxProcessor.js requires Document,
\* Packer, Paragraph, TextRun and HeadingLevel only
ReferenceError(paragraph) == Construct("ReferenceError", 0, paragraph)

Min(a, b) == IF a < b THEN a ELSE b

\* the branches the two assemblers share, from the table-row test on
ChildCommon(paragraph) ==
    IF Occurs(<<" ", " ">>, paragraph) \/ Occurs(<<"\t">>, paragraph)
    THEN (IF Len(Cells(paragraph)) > 1
          THEN Construct("monospace", 0, paragraph)
          ELSE Undefined(paragraph))
    ELSE IF isNumberedList(paragraph) THEN Construct("numbered", 0, paragraph)
    ELSE IF isBulletPoint(paragraph) THEN Construct("bullet", 0, paragraph)
    ELSE Construct("paragraph", 0, paragraph)

\* the map callback of createDocxFromText
ChildBasic(paragraph) ==
    IF StartsWith(paragraph, <<"#">>)
    THEN Construct("heading", Min(HashRun(paragraph, 1), 4), paragraph)
    ELSE ChildCommon(paragraph)

\* the map callback of createDocxFromTextAdvanced
ChildAdvanced(paragraph) ==
    IF StartsWith(paragraph, <<"#">>)
    THEN ReferenceError(paragraph)
    ELSE IF StartsWith(paragraph, <<"*", "*">>) /\ EndsWith(paragraph, <<"*", "*">>)
         THEN ReferenceError(paragraph)
         ELSE ChildCommon(paragraph)

\* paragraphs.map(...) of createDocxFromText
ChildrenBasic(content) ==
    LET ps == Paragraphs(content) IN [i \in 1..Len(ps) |-> ChildBasic(ps[i])]

\* paragraphs.map(...) of createDocxFromTextAdvanced
ChildrenAdvanced(content) ==
    LET ps == Paragraphs(content) IN [i \in 1..Len(ps) |-> ChildAdvanced(ps[i])]


(***************************************************************************)
(* Extracted texts the reconstruction is run on                            *)
(***************************************************************************)
Fill(c, n) == [i \in 1..n |-> c]

Heads ==
    { <<>>, <<"A">>, <<"A", "a">>, <<"A", "1">>, <<"1", ".", " ">>, <<"1", "2", ".", " ">>,
      <<"1", ".">>, <<"-", " ">>, <<"*", " ">>, <<"*", "*">>, <<"a", " ", " ">>,
      <<"a", "\t">>, <<"#">>, <<Bullet, " ">> }
FillChars == {"A", "a"}
FillLens == {0, 1, 3, 4, 9, 77, 78, 98, 99, 197, 198}
Tails == { <<>>, <<":">>, <<"*", "*">>, <<" ", " ", "b">> }

OneLineTexts ==
    {h \o Fill(c, n) \o t : h \in Heads, c \in FillChars, n \in FillLens, t \in Tails}

ShortLines ==
    { <<>>, <<"a">>, <<"A", "A", "A", "A">>, <<"A", "b", "c", "d", "e", ":">>,
      <<"1", ".", " ", "a">>, <<"-", " ", "a">>, <<" ", " ", "b">>, <<"a", " ", " ", "b">> }
LineBreaks ==
    { <<"\n">>, <<"\r", "\n">>, <<"\r">>, <<"\n", "\n">>, <<"\n", "\n", "\n">>,
      <<"\n", " ", "\n">>, <<"\r", "\n", "\r", "\n", "\r", "\n">> }

TwoLineTexts == {a \o b \o c : a \in ShortLines, b \in LineBreaks, c \in ShortLines}

RevenueGrowth == <<"R", "E", "V", "E", "N", "U", "E", " ", "G", "R", "O", "W", "T", "H">>
IncreaseBudget ==
    <<"1", ".", " ", "I", "n", "c", "r", "e", "a", "s", "e", " ", "b", "u", "d", "g", "e", "t">>

ExtractedTexts == OneLineTexts \cup TwoLineTexts \cup {RevenueGrowth, IncreaseBudget}

ReconInit ==
    /\ raw \in ExtractedTexts
    /\ blocks = <<>> /\ enhanced = <<>> /\ doc = NoDoc /\ via = None
    /\ rpc = "ready"

\* convertWithPdfParseAdvanced: processTextWithAdvancedFormatting(data.text)
ReconstructAdvanced ==
    /\ rpc = "ready"
    /\ blocks' = processTextWithAdvancedFormatting(raw)
    /\ enhanced' = JoinPushed(blocks')
    /\ via' = "advanced"
    /\ rpc' = "reconstructed"
    /\ UNCHANGED <<raw, doc>>
    /\ UNCHANGED notReconVars

\* convertWithEnhancedTextExtraction: enhanceExtractedText(data.text)
ReconstructEnhanced ==
    /\ rpc = "ready"
    /\ blocks' = enhanceExtractedText(raw)
    /\ enhanced' = JoinPushed(blocks')
    /\ via' = "enhanced"
    /\ rpc' = "reconstructed"
    /\ UNCHANGED <<raw, doc>>
    /\ UNCHANGED notReconVars

\* convertWithBasicExtraction: processTextBasic(data.text)
ReconstructBasic ==
    /\ rpc = "ready"
    /\ blocks' = <<>>
    /\ enhanced' = processTextBasic(raw)
    /\ via' = "basic"
    /\ rpc' = "reconstructed"
    /\ UNCHANGED <<raw, doc>>
    /\ UNCHANGED notReconVars

HasKind(children, k) == \E i \in 1..Len(children) : children[i].kind = k

\* new Document({... children: paragraphs.map(...)}), Packer.toBuffer and
\* fs.writeFile.  A ReferenceError in the callback leaves through the
\* catch; a child that is undefined is handed to the docx library, which
\* either fails on it or leaves it out when it serializes.
Assemble(children, libraryFails) ==
    IF HasKind(children, "ReferenceError")
    THEN doc' = [threw |-> TRUE, children |-> <<>>, written |-> FALSE]
    ELSE IF HasKind(children, "undefined") /\ libraryFails
         THEN doc' = [threw |-> TRUE, children |-> children, written |-> FALSE]
         ELSE doc' = [threw |-> FALSE, children |-> children, written |-> TRUE]

\* DocxProcessor.createDocxFromTextAdvanced(enhancedText, outputDocxPath)
AssembleAdvanced(libraryFails) ==
    /\ rpc = "reconstructed" /\ via = "advanced"
    /\ Assemble(ChildrenAdvanced(enhanced), libraryFails)
    /\ rpc' = "assembled"
    /\ UNCHANGED <<raw, blocks, enhanced, via>>
    /\ UNCHANGED notReconVars

\* DocxProcessor.createDocxFromText(text, outputDocxPath)
AssembleBasic(libraryFails) ==
    /\ rpc = "reconstructed" /\ via \in {"enhanced", "basic"}
    /\ Assemble(ChildrenBasic(enhanced), libraryFails)
    /\ rpc' = "assembled"
    /\ UNCHANGED <<raw, blocks, enhanced, via>>
    /\ UNCHANGED notReconVars

InitRecon == ReconInit /\ CascOff /\ SubstIdle /\ ExtractIdle /\ RegistryIdle /\ ServerIdle /\ TemplatesIdle

NextRecon ==
    \/ ReconstructAdvanced
    \/ ReconstructEnhanced
    \/ ReconstructBasic
    \/ \E f \in BOOLEAN : AssembleAdvanced(f)
    \/ \E f \in BOOLEAN : AssembleBasic(f)

SpecRecon == InitRecon /\ [][NextRecon]_vars

(***************************************************************************)
(* Properties of reconstruction and assembly                               *)
(***************************************************************************)
RuleOrder == <<"Heading", "SubHeading", "TableRow", "NumberedItem", "BulletItem", "Emphasized">>

Matches(rule, line) ==
    CASE rule = "Heading" -> isHeader(line)
      [] rule = "SubHeading" -> isSubHeader(line)
      [] rule = "TableRow" -> isTableRow(line)
      [] rule = "NumberedItem" -> isNumberedList(line)
      [] rule = "BulletItem" -> isBulletPoint(line)
      [] rule = "Emphasized" -> isEmphasizedText(line)

\* the kind of the first rule of RuleOrder the line matches
FirstRule(line) ==
    LET hits == {i \in DOMAIN RuleOrder : Matches(RuleOrder[i], line)}
    IN  IF hits = {} THEN "Paragraph"
        ELSE RuleOrder[CHOOSE i \in hits : \A j \in hits : i <= j]

AllCapsWithColon(line) ==
    line = toUpperCase(line) /\ EndsWith(line, <<":">>) /\ Len(line) >= 4 /\ Len(line) <= 99

\* C14 (classifier precedence): every non-blank trimmed line gets the kind
\* of the first rule it matches in the order Heading, Sub-heading, Table
\* row, Numbered item, Bullet item, Emphasized, else Paragraph; an all-caps
\* line of length 4..99 ending with ":" is a Heading, and so is
\* "REVENUE GROWTH".
C14_ClassifierPrecedence ==
    (rpc # "off" /\ via = "advanced") =>
        /\ \A i \in 1..Len(blocks) :
              blocks[i].line # <<>> =>
                 /\ blocks[i].kind = FirstRule(blocks[i].line)
                 /\ AllCapsWithColon(blocks[i].line) => blocks[i].kind = "Heading"
        /\ raw = RevenueGrowth => (Len(blocks) = 1 /\ blocks[1].kind = "Heading")

\* a line that matches a later rule as well as the one it was given
C14_Witness ==
    /\ rpc = "reconstructed" /\ via = "advanced"
    /\ \E i \in 1..Len(blocks) :
          /\ blocks[i].kind = "SubHeading"
          /\ isTableRow(blocks[i].line)
          /\ isEmphasizedText(blocks[i].line)

\* the position among the children of the block at position i
ChildIndex(bs, i) == Cardinality({j \in 1..i : bs[j].pushed # <<>>})

ListKind(k) == IF k = "NumberedItem" THEN "numbered" ELSE "bullet"

\* C15 (list items): a line classified Numbered item or Bullet item comes
\* out of the assembler as a numbered or bulleted list item at level 0.
C15_ListItemsSurvive ==
    (rpc = "assembled" /\ via \in {"advanced", "enhanced"}) =>
        \A i \in 1..Len(blocks) :
            blocks[i].kind \in {"NumberedItem", "BulletItem"} =>
                /\ ~doc.threw
                /\ ChildIndex(blocks, i) <= Len(doc.children)
                /\ doc.children[ChildIndex(blocks, i)].kind = ListKind(blocks[i].kind)
                /\ doc.children[ChildIndex(blocks, i)].level = 0

\* a line with a tab or two blanks that has fewer than two non-empty cells
Degenerate(paragraph) ==
    /\ Occurs(<<" ", " ">>, paragraph) \/ Occurs(<<"\t">>, paragraph)
    /\ Len(Cells(paragraph)) < 2

\* C16 (table-row degradation): every non-blank line given to
\* createDocxFromText or createDocxFromTextAdvanced yields exactly one
\* construct, and a line with a tab or two blanks but fewer than two cells
\* yields a paragraph.
C16_TableRowDegradation ==
    (rpc = "assembled"
       /\ ~(via = "advanced" /\ HasKind(ChildrenAdvanced(enhanced), "ReferenceError"))) =>
        /\ ~doc.threw
        /\ Len(doc.children) = Len(Paragraphs(enhanced))
        /\ \A i \in 1..Len(doc.children) :
              /\ doc.children[i].kind # "undefined"
              /\ (~StartsWith(doc.children[i].from, <<"#">>)
                    /\ Degenerate(doc.children[i].from)) =>
                    doc.children[i].kind = "paragraph"

\* C17 (normalization): the normalized text has no carriage return, no two
\* consecutive blank lines and no blank at either end.
C17_Normalized ==
    (rpc = "reconstructed" /\ via = "basic") =>
        /\ ~Occurs(<<"\r">>, enhanced)
        /\ LET lines == SplitLines(enhanced)
           IN  \A i \in 1..(Len(lines) - 1) :
                  ~(Trim(lines[i]) = <<>> /\ Trim(lines[i + 1]) = <<>>)
        /\ Trim(enhanced) = enhanced

\* C18 (heading and emphasized assembly): createDocxFromTextAdvanced does
\* not fail, a Heading block becomes a heading construct at its level and an
\* Emphasized block an emphasized (bold, centered) paragraph.
C18_HeadingEmphasizedAssembly ==
    (rpc = "assembled" /\ via = "advanced") =>
        /\ ~doc.threw
        /\ \A i \in 1..Len(blocks) :
              /\ blocks[i].kind = "Heading" =>
                    /\ doc.children[ChildIndex(blocks, i)].kind = "heading"
                    /\ doc.children[ChildIndex(blocks, i)].level = 1
              /\ blocks[i].kind = "Emphasized" =>
                    doc.children[ChildIndex(blocks, i)].kind = "emphasized"

(***************************************************************************)
(* The template registry and POST /api/template/:templateId/values         *)
(*                                                                         *)
(* The handler has no await: it reads the template from the Map, merges    *)
(* the posted values over the saved ones, stores the template and writes   *)
(* the registry to disk with writeFileSync, all in one turn of the event   *)
(* loop.                                                                   *)
(***************************************************************************)
MaxSaves == 2       \* set-default-values requests served in one behaviour

TemplateIds == {"t1", "t2"}
\* ids a request can name: the uploaded templates and one that does not exist
RequestedIds == TemplateIds \cup {"t9"}

ValueKeys == {"k1", "k2"}
Absent == "absent"
\* objects over the keys k1, k2: each key absent or a string
ValueObjects == [ValueKeys -> {Absent, "x", "y"}]
NoValues == [k \in ValueKeys |-> Absent]
\* req.body.values missing, or not an object
MissingValues == [k \in ValueKeys |-> "missing"]
\* req.body.values
PostedValues == ValueObjects \cup {MissingValues}

\* Faulty variant: the posted values replace the saved ones
MergeOverwrite(saved, values) == values

\* { ...(template.savedValues || {}), ...values }
Merge(saved, values) ==
    [k \in ValueKeys |-> IF values[k] # Absent THEN values[k] ELSE saved[k]]

\* the Map after loadTemplatesFromDisk / upload: no saved values yet
RegistryInit ==
    /\ registry = [t \in TemplateIds |-> NoValues]
    /\ templatesFile = registry
    /\ served = <<>>

\* POST /api/template/:templateId/values; writeOk: writeFileSync did not throw
SaveTemplateValues(templateId, values, writeOk) ==
    /\ Len(served) < MaxSaves
    /\ IF values = MissingValues
       THEN /\ served' = Append(served, [id |-> templateId, values |-> values, status |-> 400])
            /\ UNCHANGED <<registry, templatesFile>>
       ELSE IF templateId \notin DOMAIN registry
       THEN /\ served' = Append(served, [id |-> templateId, values |-> values, status |-> 404])
            /\ UNCHANGED <<registry, templatesFile>>
       ELSE /\ registry' = [registry EXCEPT ![templateId] = Merge(@, values)]
            /\ templatesFile' = IF writeOk THEN registry' ELSE templatesFile
            /\ served' = Append(served, [id |-> templateId, values |-> values, status |-> 200])
    /\ UNCHANGED notRegVars

InitRegistry == RegistryInit /\ CascOff /\ SubstIdle /\ ExtractIdle /\ ReconIdle /\ ServerIdle /\ TemplatesIdle

NextRegistry ==
    \E t \in RequestedIds, v \in PostedValues, w \in BOOLEAN : SaveTemplateValues(t, v, w)

SpecRegistry == InitRegistry /\ [][NextRegistry]_vars

(***************************************************************************)
(* Properties of the registry                                              *)
(***************************************************************************)
\* the merges of the first n served requests applied to template t, one
\* after another in the order they were served
RECURSIVE SerialResult(_, _)
SerialResult(t, n) ==
    IF n = 0 THEN NoValues
    ELSE LET before == SerialResult(t, n - 1)
             r == served[n]
         IN  IF r.id = t /\ r.status = 200
             THEN [k \in ValueKeys |-> IF r.values[k] # Absent THEN r.values[k] ELSE before[k]]
             ELSE before

\* C20 (atomic merge per template): the saved values of every template are
\* what the served merges on that template give when applied one after
\* another, so no update is lost and a request on another template changes
\* nothing.
C20_AtomicMerge ==
    served # <<>> =>
        \A t \in TemplateIds : registry[t] = SerialResult(t, Len(served))

\* two requests on one template, on different keys, and one on the other
C20_Witness ==
    /\ Len(served) = 2
    /\ served[1].status = 200 /\ served[2].status = 200
    /\ served[1].id = served[2].id
    /\ served[1].values["k1"] = "x" /\ served[1].values["k2"] = Absent
    /\ served[2].values["k1"] = Absent /\ served[2].values["k2"] = "y"
    /\ registry[served[1].id] = [k1 |-> "x", k2 |-> "y"]

(***************************************************************************)
(* POST /api/generate-document and POST /api/convert-pdf-to-word           *)
(*                                                                         *)
(* Two requests in flight.  Each await of a handler is a state of the      *)
(* request, so that the other request can run in between, as it does on    *)
(* the event loop.  The conversion cascades are taken as one await here;   *)
(* their steps are the subject of Spec.                                    *)
(***************************************************************************)
ReqIds == {1, 2}
FileIds == {"f1"}
VariableSets == {"v1", "v2"}
Formats == {"docx", "pdf"}

\* names in tempDir
TempName(prefix, id, ext) == [prefix |-> prefix, id |-> id, ext |-> ext]
TempNames ==
    {TempName(p, t, e) : p \in {"generated", "intermediate"}, t \in TemplateIds, e \in Formats}
      \cup {TempName("converted", f, "docx") : f \in FileIds}

\* what a file holds: the document (template or PDF) it was made from and
\* the variable values it was rendered with
Content(id, values) == [of |-> id, values |-> values]
NoContent == Content(None, None)

NoRequest ==
    [op |-> None, id |-> None, values |-> None, format |-> None, pc |-> "none",
     target |-> TempName(None, None, None), buffer |-> NoContent,
     fileName |-> TempName(None, None, None)]

\* `generated-${templateId}.docx` / `generated-${templateId}.pdf`
GeneratedName(templateId, format) == TempName("generated", templateId, format)
\* `intermediate-${templateId}.docx`
IntermediateName(templateId) == TempName("intermediate", templateId, "docx")
\* `converted-${fileId}.docx`
ConvertedName(fileId) == TempName("converted", fileId, "docx")

ServerInit ==
    /\ reqs = [r \in ReqIds |-> NoRequest]
    /\ temp = [n \in TempNames |-> NoContent]

Respond(r, status) == reqs' = [reqs EXCEPT ![r].pc = status]

\* POST /api/generate-document up to the first await (fs.readFile in
\* processTemplate)
GenerateDocument(r, templateId, values, format) ==
    /\ reqs[r].pc = "none"
    /\ IF templateId \notin TemplateIds
       THEN reqs' = [reqs EXCEPT ![r] = [NoRequest EXCEPT !.op = "generate", !.id = templateId,
                                            !.values = values, !.format = format,
                                            !.pc = "404"]]
       ELSE reqs' = [reqs EXCEPT ![r] =
                [NoRequest EXCEPT !.op = "generate", !.id = templateId, !.values = values,
                      !.format = format, !.pc = "readFile",
                      !.target = IF format = "docx" THEN GeneratedName(templateId, "docx")
                                 ELSE IntermediateName(templateId)]]
    /\ UNCHANGED temp
    /\ UNCHANGED notSrvVars

\* processTemplate: readFile settles; the template is rendered with the
\* request's values and fs.writeFile is awaited
TemplateRead(r, ok) ==
    /\ reqs[r].pc = "readFile"
    /\ IF ok
       THEN reqs' = [reqs EXCEPT ![r].buffer = Content(reqs[r].id, reqs[r].values),
                                 ![r].pc = "writeFile"]
       ELSE Respond(r, "500")
    /\ UNCHANGED temp
    /\ UNCHANGED notSrvVars

\* processTemplate: writeFile settles.  For docx the handler checks the
\* file and responds; for pdf it goes on to isLibreOfficeAvailable
TemplateWritten(r, ok) ==
    /\ reqs[r].pc = "writeFile"
    /\ IF ok
       THEN /\ temp' = [temp EXCEPT ![reqs[r].target] = reqs[r].buffer]
            /\ IF reqs[r].format = "docx"
               THEN reqs' = [reqs EXCEPT ![r].fileName = reqs[r].target, ![r].pc = "200"]
               ELSE reqs' = [reqs EXCEPT ![r].pc = "isLibreOfficeAvailable"]
       ELSE /\ Respond(r, "500")
            /\ temp' = temp
    /\ UNCHANGED notSrvVars

\* isLibreOfficeAvailable settles (it never rejects); convertDocxToPdfNative
\* is awaited
LibreOfficeProbed(r) ==
    /\ reqs[r].pc = "isLibreOfficeAvailable"
    /\ reqs' = [reqs EXCEPT ![r].pc = "convert",
                            ![r].target = GeneratedName(reqs[r].id, "pdf")]
    /\ UNCHANGED temp
    /\ UNCHANGED notSrvVars

\* POST /api/convert-pdf-to-word up to the await of convertPdfToWord
ConvertPdfToWord(r, fileId) ==
    /\ reqs[r].pc = "none"
    /\ IF fileId \notin FileIds
       THEN reqs' = [reqs EXCEPT ![r] = [NoRequest EXCEPT !.op = "convert", !.id = fileId,
                                            !.pc = "404"]]
       ELSE reqs' = [reqs EXCEPT ![r] =
                [NoRequest EXCEPT !.op = "convert", !.id = fileId, !.pc = "convert",
                      !.buffer = Content(fileId, None),
                      !.target = ConvertedName(fileId)]]
    /\ UNCHANGED temp
    /\ UNCHANGED notSrvVars

\* the cascade reads its input: the intermediate DOCX as it is on disk at
\* that moment, or the uploaded PDF
CascadeReads(r) ==
    /\ reqs[r].pc = "convert"
    /\ reqs' = [reqs EXCEPT ![r].pc = "converting",
                            ![r].buffer = IF reqs[r].op = "generate"
                                          THEN temp[IntermediateName(reqs[r].id)]
                                          ELSE reqs[r].buffer]
    /\ UNCHANGED temp
    /\ UNCHANGED notSrvVars

\* the cascade settles; the handler checks the output file and responds
CascadeSettles(r, ok) ==
    /\ reqs[r].pc = "converting"
    /\ IF ok
       THEN /\ temp' = [temp EXCEPT ![reqs[r].target] = reqs[r].buffer]
            /\ reqs' = [reqs EXCEPT ![r].fileName = reqs[r].target, ![r].pc = "200"]
       ELSE /\ Respond(r, "500")
            /\ temp' = temp
    /\ UNCHANGED notSrvVars

InitServer ==
    ServerInit /\ CascOff /\ SubstIdle /\ ExtractIdle /\ ReconIdle /\ RegistryIdle
        /\ TemplatesIdle

NextServer ==
    \/ \E r \in ReqIds, t \in RequestedIds, v \in VariableSets, f \in Formats :
          GenerateDocument(r, t, v, f)
    \/ \E r \in ReqIds, ok \in BOOLEAN : TemplateRead(r, ok)
    \/ \E r \in ReqIds, ok \in BOOLEAN : TemplateWritten(r, ok)
    \/ \E r \in ReqIds : LibreOfficeProbed(r)
    \/ \E r \in ReqIds, f \in FileIds \cup {"f9"} : ConvertPdfToWord(r, f)
    \/ \E r \in ReqIds : CascadeReads(r)
    \/ \E r \in ReqIds, ok \in BOOLEAN : CascadeSettles(r, ok)

SpecServer == InitServer /\ [][NextServer]_vars

(***************************************************************************)
(* Properties of the request handlers                                      *)
(***************************************************************************)
InFlight(r) ==
    reqs[r].pc \in {"readFile", "writeFile", "isLibreOfficeAvailable", "convert", "converting"}

\* the names in tempDir a request writes in the course of its handling
WrittenNames(r) ==
    IF reqs[r].op = "convert" THEN {ConvertedName(reqs[r].id)}
    ELSE IF reqs[r].format = "docx" THEN {GeneratedName(reqs[r].id, "docx")}
    ELSE {IntermediateName(reqs[r].id), GeneratedName(reqs[r].id, "pdf")}

\* C19 (disjoint temporary files): two requests in flight at the same time
\* write disjoint names, and the file named in a request's download URL
\* holds that request's output.
C19_DisjointTempFiles ==
    /\ \A r1, r2 \in ReqIds :
          (r1 # r2 /\ InFlight(r1) /\ InFlight(r2)) =>
              WrittenNames(r1) \cap WrittenNames(r2) = {}
    /\ \A r \in ReqIds :
          reqs[r].pc = "200" =>
              temp[reqs[r].fileName] = Content(reqs[r].id, reqs[r].values)

(***************************************************************************)
(* The template handlers of server.js on the event loop                    *)
(*                                                                         *)
(* Every request is a record of rq; a handler runs from its arrival to its *)
(* first await in one step, and from the settling of an await to the next  *)
(* await or to its answer in one step, so that the other requests run in   *)
(* between exactly where the event loop lets them.  The server starts with *)
(* no data/templates.json.                                                 *)
(***************************************************************************)
MaxRequests == 3    \* requests received in one behaviour

Requests == 1..MaxRequests

\* uuidv4(): the n-th identifier handed out; never one handed out before
Uuid(n) == IF n = 1 THEN "t1" ELSE "t2"
\* the name multer's storage gives the n-th uploaded file
FileName(n) == IF n = 1 THEN "u1.docx" ELSE "u2.docx"
NoFileName == "nofile"

\* the text of the documents a client uploads
UploadedTexts ==
    { RenderAll(<<Ph(<<"a">>, 0)>>), RenderAll(<<Ph(<<"a">>, 1), Lit(<<"x">>), Ph(<<"A">>, 0)>>) }
\* req.file: absent, or a DOCX document
UploadedFiles ==
    {[present |-> TRUE, text |-> t] : t \in UploadedTexts}
      \cup {[present |-> FALSE, text |-> <<>>]}

\* a value of the Map `templates`
Template(id, originalFile, variablesArray, savedValues) ==
    [id |-> id, originalFile |-> originalFile, variables |-> variablesArray,
     savedValues |-> savedValues]
\* what Map.get returns for an identifier it does not hold
NoTemplate == Template(None, NoFileName, <<>>, NoValues)

\* templates.get(templateId)
MapGet(map, templateId) ==
    IF templateId \in DOMAIN map THEN map[templateId] ELSE NoTemplate

\* Faulty variant: the entry stays in the Map
MapDeleteKeeps(map, templateId) == map

\* templates.delete(templateId)
MapDelete(map, templateId) ==
    IF templateId \in DOMAIN map THEN [map EXCEPT ![templateId] = NoTemplate] ELSE map

\* Faulty variant: the stored template is rebuilt from the posted values
StoreValuesRebuilds(template, values) ==
    Template(template.id, template.originalFile, <<>>, Merge(template.savedValues, values))

\* template.savedValues = { ...(template.savedValues || {}), ...values }
StoreValues(template, values) ==
    [template EXCEPT !.savedValues = Merge(@, values)]

\* Array.from(templates.values()), as JSON.stringify writes it
Serializable(map) == {map[i] : i \in {j \in DOMAIN map : map[j] # NoTemplate}}

\* loadTemplatesFromDisk: the Map rebuilt from the array of the file, every
\* entry normalized field by field and stored under its own id
LoadTemplatesFromDisk(arr) ==
    [i \in TemplateIds |->
        IF \E t \in arr : t.id = i
        THEN LET t == CHOOSE u \in arr : u.id = i
             IN  Template(t.id, t.originalFile, t.variables, t.savedValues)
        ELSE NoTemplate]

\* the values posted by the clients of this section
PostedDefaults ==
    { [k1 |-> "x", k2 |-> Absent], [k1 |-> Absent, k2 |-> "y"], MissingValues }

\* the body of an error answer: res.status(..).json({ error: message })
ErrorBody(message) == [error |-> message, detail |-> None]
OkBody == [error |-> None, detail |-> None]

NoRq ==
    [op |-> None, id |-> None, values |-> NoValues, format |-> None, pc |-> "none",
     template |-> NoTemplate, status |-> 0, body |-> OkBody, cause |-> None,
     fileName |-> TempName(None, None, None)]

\* what a handler's catch block writes with console.error
Logged(message, cause) == [message |-> message, error |-> cause]

TemplatesInit ==
    /\ templates = [i \in TemplateIds |-> NoTemplate]
    /\ uploadsDir = {}
    /\ templatesDataFile = {}
    /\ uuids = 0
    /\ rq = [r \in Requests |-> NoRq]
    /\ nreq = 0
    /\ tempDir = {}
    /\ downloaded = {}
    /\ console = {}

\* the n-th request arrives
Arrives(n) == nreq < MaxRequests /\ n = nreq + 1 /\ nreq' = n

\* the answer is sent; the handler's reference to the template goes out
\* of scope (the record keeps it for a delete, to tell which file it removed)
Answered(r, status, body) ==
    [r EXCEPT !.pc = "done", !.status = status, !.body = body,
              !.template = IF r.op = "delete" THEN @ ELSE NoTemplate]

\* const template = templates.get(templateId); if (!template) return 404;
\* otherwise the handler goes on to its await holding the template
Lookup(req, await) ==
    LET template == MapGet(templates, req.id)
    IN  IF template = NoTemplate
        THEN Answered(req, 404, ErrorBody("Template not found"))
        ELSE [req EXCEPT !.template = template, !.pc = await]

\* saveTemplatesToDisk(): writeFileSync of the serialized Map; a failure is
\* caught and written to the console
SaveTemplatesToDisk(map, writeOk) ==
    templatesDataFile' = IF writeOk THEN Serializable(map) ELSE templatesDataFile
SaveLog(writeOk) ==
    IF writeOk THEN {} ELSE {Logged("Failed to save templates to disk:", "EIO")}

\* POST /api/upload-template up to the await of extractTextAndVariables;
\* multer has stored the file under a new name before the handler runs
UploadTemplate(n, file) ==
    /\ Arrives(n)
    /\ IF ~file.present
       THEN /\ rq' = [rq EXCEPT ![n] = Answered([NoRq EXCEPT !.op = "upload"], 400,
                                                ErrorBody("No file uploaded"))]
            /\ UNCHANGED <<uploadsDir, uuids>>
       ELSE /\ uuids < Cardinality(TemplateIds)
            /\ uuids' = uuids + 1
            /\ uploadsDir' = uploadsDir \cup {FileName(uuids')}
            /\ rq' = [rq EXCEPT ![n] =
                        [NoRq EXCEPT !.op = "upload", !.id = Uuid(uuids'), !.pc = "extract",
                           !.template = Template(Uuid(uuids'), FileName(uuids'),
                                                 ScanVariables(file.text, 1, <<>>), NoValues)]]
    /\ UNCHANGED <<templates, templatesDataFile, tempDir, downloaded, console>>
    /\ UNCHANGED notTplVars

\* extractTextAndVariables settles: templates.set, saveTemplatesToDisk and
\* the answer, or the catch block
UploadExtracted(r, ok, writeOk) ==
    /\ rq[r].pc = "extract"
    /\ IF ok
       THEN /\ templates' = [templates EXCEPT ![rq[r].id] = rq[r].template]
            /\ SaveTemplatesToDisk(templates', writeOk)
            /\ console' = console \cup SaveLog(writeOk)
            /\ rq' = [rq EXCEPT ![r] = Answered(@, 200, OkBody)]
       ELSE /\ console' = console \cup {Logged("Upload error:", "ExtractionError")}
            /\ rq' = [rq EXCEPT ![r] = Answered([@ EXCEPT !.cause = "ExtractionError"], 500,
                                                ErrorBody("Failed to process template"))]
            /\ UNCHANGED <<templates, templatesDataFile>>
    /\ UNCHANGED <<uploadsDir, uuids, nreq, tempDir, downloaded>>
    /\ UNCHANGED notTplVars

\* GET /api/template/:templateId
GetTemplate(n, templateId) ==
    /\ Arrives(n)
    /\ LET req == Lookup([NoRq EXCEPT !.op = "get", !.id = templateId], "json")
       IN  rq' = [rq EXCEPT ![n] = IF req.pc = "json" THEN Answered(req, 200, OkBody) ELSE req]
    /\ UNCHANGED <<templates, uploadsDir, templatesDataFile, uuids, tempDir, downloaded, console>>
    /\ UNCHANGED notTplVars

\* GET /api/templates
ListTemplates(n) ==
    /\ Arrives(n)
    /\ rq' = [rq EXCEPT ![n] = Answered([NoRq EXCEPT !.op = "list"], 200, OkBody)]
    /\ UNCHANGED <<templates, uploadsDir, templatesDataFile, uuids, tempDir, downloaded, console>>
    /\ UNCHANGED notTplVars

\* POST /api/template/:templateId/values, with the whole template record
PostValues(n, templateId, values, writeOk) ==
    /\ Arrives(n)
    /\ LET template == MapGet(templates, templateId)
           req == [NoRq EXCEPT !.op = "values", !.id = templateId, !.values = values]
       IN  IF values = MissingValues
           THEN /\ rq' = [rq EXCEPT ![n] =
                            Answered(req, 400, ErrorBody("Invalid or missing values object"))]
                /\ UNCHANGED <<templates, templatesDataFile, console>>
           ELSE IF template = NoTemplate
           THEN /\ rq' = [rq EXCEPT ![n] = Answered(req, 404, ErrorBody("Template not found"))]
                /\ UNCHANGED <<templates, templatesDataFile, console>>
           ELSE /\ templates' = [templates EXCEPT ![templateId] = StoreValues(template, values)]
                /\ SaveTemplatesToDisk(templates', writeOk)
                /\ console' = console \cup SaveLog(writeOk)
                /\ rq' = [rq EXCEPT ![n] = Answered([req EXCEPT !.template = template], 200, OkBody)]
    /\ UNCHANGED <<uploadsDir, uuids, tempDir, downloaded>>
    /\ UNCHANGED notTplVars

\* POST /api/generate-document up to the await of processTemplate; the
\* path template.originalFile is read from the Map before the await
GenerateRequest(n, templateId, format) ==
    /\ Arrives(n)
    /\ rq' = [rq EXCEPT ![n] =
                Lookup([NoRq EXCEPT !.op = "generate", !.id = templateId, !.format = format],
                       "processTemplate")]
    /\ UNCHANGED <<templates, uploadsDir, templatesDataFile, uuids, tempDir, downloaded, console>>
    /\ UNCHANGED notTplVars

\* what processTemplate can end with, besides success: docxtemplater
\* rejects the placeholders of the document
RenderOutcomes == {"ok", "RenderError"}

\* the catch block of the generate handler: the error goes to the console,
\* the answer carries a fixed message
GenerateFails(r, cause) ==
    /\ console' = console \cup {Logged("Generate document error:", cause)}
    /\ rq' = [rq EXCEPT ![r] = Answered([@ EXCEPT !.cause = cause], 500,
                                        ErrorBody("Failed to generate document"))]

\* processTemplate settles: readFile of the original document, render,
\* writeFile of the output (no shared state is read between the two awaits)
TemplateProcessed(r, outcome) ==
    /\ rq[r].pc = "processTemplate"
    /\ IF rq[r].template.originalFile \notin uploadsDir
       THEN GenerateFails(r, "ENOENT") /\ UNCHANGED tempDir
       ELSE IF outcome = "RenderError"
       THEN GenerateFails(r, "RenderError") /\ UNCHANGED tempDir
       ELSE IF rq[r].format = "docx"
       THEN /\ tempDir' = tempDir \cup {GeneratedName(rq[r].id, "docx")}
            /\ rq' = [rq EXCEPT ![r] =
                        Answered([@ EXCEPT !.fileName = GeneratedName(rq[r].id, "docx")],
                                 200, OkBody)]
            /\ UNCHANGED console
       ELSE /\ tempDir' = tempDir \cup {IntermediateName(rq[r].id)}
            /\ rq' = [rq EXCEPT ![r].pc = "convertDocxToPdfNative"]
            /\ UNCHANGED console
    /\ UNCHANGED <<templates, uploadsDir, templatesDataFile, uuids, nreq, downloaded>>
    /\ UNCHANGED notTplVars

\* isLibreOfficeAvailable and convertDocxToPdfNative settle: the cascade
\* wrote the PDF, or all its strategies failed
PdfConverted(r, ok) ==
    /\ rq[r].pc = "convertDocxToPdfNative"
    /\ IF ok
       THEN /\ tempDir' = tempDir \cup {GeneratedName(rq[r].id, "pdf")}
            /\ rq' = [rq EXCEPT ![r] =
                        Answered([@ EXCEPT !.fileName = GeneratedName(rq[r].id, "pdf")],
                                 200, OkBody)]
            /\ UNCHANGED console
       ELSE GenerateFails(r, "CascadeExhausted") /\ UNCHANGED tempDir
    /\ UNCHANGED <<templates, uploadsDir, templatesDataFile, uuids, nreq, downloaded>>
    /\ UNCHANGED notTplVars

\* GET /api/template/:templateId/stats up to the await of getFileStats
StatsRequest(n, templateId) ==
    /\ Arrives(n)
    /\ rq' = [rq EXCEPT ![n] = Lookup([NoRq EXCEPT !.op = "stats", !.id = templateId], "read")]
    /\ UNCHANGED <<templates, uploadsDir, templatesDataFile, uuids, tempDir, downloaded, console>>
    /\ UNCHANGED notTplVars

\* GET /api/template/:templateId/preview up to the await of
\* extractTextAndVariables
PreviewRequest(n, templateId) ==
    /\ Arrives(n)
    /\ rq' = [rq EXCEPT ![n] = Lookup([NoRq EXCEPT !.op = "preview", !.id = templateId], "read")]
    /\ UNCHANGED <<templates, uploadsDir, templatesDataFile, uuids, tempDir, downloaded, console>>
    /\ UNCHANGED notTplVars

\* getFileStats / extractTextAndVariables settle on the original document
DocumentRead(r) ==
    /\ rq[r].pc = "read"
    /\ IF rq[r].template.originalFile \in uploadsDir
       THEN /\ rq' = [rq EXCEPT ![r] = Answered(@, 200, OkBody)]
            /\ UNCHANGED console
       ELSE /\ console' = console \cup
                  {Logged(IF rq[r].op = "stats" THEN "Get template stats error:"
                          ELSE "Preview template error:", "ENOENT")}
            /\ rq' = [rq EXCEPT ![r] =
                        Answered([@ EXCEPT !.cause = "ENOENT"], 500,
                                 ErrorBody(IF rq[r].op = "stats"
                                           THEN "Failed to get template statistics"
                                           ELSE "Failed to preview template"))]
    /\ UNCHANGED <<templates, uploadsDir, templatesDataFile, uuids, nreq, tempDir, downloaded>>
    /\ UNCHANGED notTplVars

\* DELETE /api/template/:templateId up to the await of fs.remove
DeleteTemplate(n, templateId) ==
    /\ Arrives(n)
    /\ rq' = [rq EXCEPT ![n] = Lookup([NoRq EXCEPT !.op = "delete", !.id = templateId], "remove")]
    /\ UNCHANGED <<templates, uploadsDir, templatesDataFile, uuids, tempDir, downloaded, console>>
    /\ UNCHANGED notTplVars

\* fs.remove unlinks the file on the disk; the handler resumes in a later
\* turn of the event loop.  A path that is not there any more is no failure
\* (fs-extra's remove ignores ENOENT).
RemoveUnlinks(r) ==
    /\ rq[r].pc = "remove"
    /\ uploadsDir' = uploadsDir \ {rq[r].template.originalFile}
    /\ rq' = [rq EXCEPT ![r].pc = "removed"]
    /\ UNCHANGED <<templates, templatesDataFile, uuids, nreq, tempDir, downloaded, console>>
    /\ UNCHANGED notTplVars

\* fs.remove rejects (the file is there and cannot be unlinked): the catch
\* block of the delete handler
RemoveRejects(r) ==
    /\ rq[r].pc = "remove"
    /\ rq[r].template.originalFile \in uploadsDir
    /\ console' = console \cup {Logged("Delete template error:", "EPERM")}
    /\ rq' = [rq EXCEPT ![r] = Answered([@ EXCEPT !.cause = "EPERM"], 500,
                                        ErrorBody("Failed to delete template"))]
    /\ UNCHANGED <<templates, uploadsDir, templatesDataFile, uuids, nreq, tempDir, downloaded>>
    /\ UNCHANGED notTplVars

\* the delete handler resumes after the await: templates.delete,
\* saveTemplatesToDisk and the answer
DeleteResumes(r, writeOk) ==
    /\ rq[r].pc = "removed"
    /\ templates' = MapDelete(templates, rq[r].id)
    /\ SaveTemplatesToDisk(templates', writeOk)
    /\ console' = console \cup SaveLog(writeOk)
    /\ rq' = [rq EXCEPT ![r] = Answered(@, 200, OkBody)]
    /\ UNCHANGED <<uploadsDir, uuids, nreq, tempDir, downloaded>>
    /\ UNCHANGED notTplVars

\* GET /api/download/:fileName up to the piping of the file
Download(n, fileName) ==
    /\ Arrives(n)
    /\ LET req == [NoRq EXCEPT !.op = "download", !.fileName = fileName]
       IN  rq' = [rq EXCEPT ![n] =
                IF fileName \notin tempDir
                THEN Answered(req, 404, ErrorBody("File not found"))
                ELSE [req EXCEPT !.pc = "stream"]]
    /\ UNCHANGED <<templates, uploadsDir, templatesDataFile, uuids, tempDir, downloaded, console>>
    /\ UNCHANGED notTplVars

\* res.on('finish'): the download is logged; the removal of the file is
\* commented out in the handler
DownloadFinished(r) ==
    /\ rq[r].pc = "stream"
    /\ rq' = [rq EXCEPT ![r] = Answered(@, 200, OkBody)]
    /\ downloaded' = downloaded \cup {rq[r].fileName}
    /\ UNCHANGED <<templates, uploadsDir, templatesDataFile, uuids, nreq, tempDir, console>>
    /\ UNCHANGED notTplVars

\* a name no handler has written
MissingName == GeneratedName("t9", "docx")

\* the names of tempDir a download request can ask for
DownloadNames ==
    {GeneratedName(t, f) : t \in TemplateIds, f \in Formats}
      \cup {IntermediateName(t) : t \in TemplateIds}

InitTemplates ==
    TemplatesInit /\ CascOff /\ SubstIdle /\ ExtractIdle /\ ReconIdle /\ RegistryIdle
        /\ ServerIdle

\* a request names t1 or t2: an identifier is unknown to the registry
\* until its upload is stored and after its delete
NextTemplates ==
    \/ \E n \in Requests, file \in UploadedFiles : UploadTemplate(n, file)
    \/ \E r \in Requests, ok \in BOOLEAN, w \in BOOLEAN : UploadExtracted(r, ok, w)
    \/ \E n \in Requests, t \in TemplateIds : GetTemplate(n, t)
    \/ \E n \in Requests : ListTemplates(n)
    \/ \E n \in Requests, t \in TemplateIds, v \in PostedDefaults, w \in BOOLEAN :
          PostValues(n, t, v, w)
    \/ \E n \in Requests, t \in TemplateIds, f \in Formats : GenerateRequest(n, t, f)
    \/ \E r \in Requests, o \in RenderOutcomes : TemplateProcessed(r, o)
    \/ \E r \in Requests, ok \in BOOLEAN : PdfConverted(r, ok)
    \/ \E n \in Requests, t \in TemplateIds : StatsRequest(n, t)
    \/ \E n \in Requests, t \in TemplateIds : PreviewRequest(n, t)
    \/ \E r \in Requests : DocumentRead(r)
    \/ \E n \in Requests, t \in TemplateIds : DeleteTemplate(n, t)
    \/ \E r \in Requests : RemoveUnlinks(r)
    \/ \E r \in Requests : RemoveRejects(r)
    \/ \E r \in Requests, w \in BOOLEAN : DeleteResumes(r, w)
    \/ \E n \in Requests, f \in tempDir \cup {MissingName} : Download(n, f)
    \/ \E r \in Requests : DownloadFinished(r)

SpecTemplates == InitTemplates /\ [][NextTemplates]_vars

\* the steps the event loop takes on its own: an await settles and the
\* handler resumes
Resumes ==
    \/ \E r \in Requests, ok \in BOOLEAN, w \in BOOLEAN : UploadExtracted(r, ok, w)
    \/ \E r \in Requests, o \in RenderOutcomes : TemplateProcessed(r, o)
    \/ \E r \in Requests, ok \in BOOLEAN : PdfConverted(r, ok)
    \/ \E r \in Requests : DocumentRead(r)
    \/ \E r \in Requests : RemoveUnlinks(r) \/ RemoveRejects(r)
    \/ \E r \in Requests, w \in BOOLEAN : DeleteResumes(r, w)
    \/ \E r \in Requests : DownloadFinished(r)

\* the same handlers; a request that arrived is eventually answered, while
\* nothing obliges a client to send a request
SpecTemplatesFair == SpecTemplates /\ WF_vars(Resumes)

(***************************************************************************)
(* Properties of the template handlers                                     *)
(***************************************************************************)
\* the step is a step of request r
StepOf(r) == rq'[r] # rq[r]
\* the step answers request r
AnswersNow(r) == rq[r].pc # "done" /\ rq'[r].pc = "done"

\* C21 (template immutability): while a template is registered its
\* identifier, original document and variable names stay as they were at
\* ingestion; its saved values change in a set-default-values step only,
\* which adds the new keys, overwrites the given keys and keeps the others;
\* it leaves the registry in a delete step only; and no step of a get,
\* list, generate, stats or preview request changes the registry.
C21_TemplateImmutability ==
    [][ /\ \A i \in TemplateIds :
            /\ (templates[i] # NoTemplate /\ templates'[i] # NoTemplate) =>
                  /\ templates'[i].id = templates[i].id
                  /\ templates'[i].originalFile = templates[i].originalFile
                  /\ templates'[i].variables = templates[i].variables
                  /\ \/ templates'[i].savedValues = templates[i].savedValues
                     \/ \E r \in Requests :
                           /\ StepOf(r) /\ rq'[r].op = "values" /\ rq'[r].id = i
                           /\ \A k \in ValueKeys :
                                 templates'[i].savedValues[k] =
                                    IF rq'[r].values[k] # Absent THEN rq'[r].values[k]
                                    ELSE templates[i].savedValues[k]
            /\ (templates[i] # NoTemplate /\ templates'[i] = NoTemplate) =>
                  \E r \in Requests : StepOf(r) /\ rq'[r].op = "delete" /\ rq'[r].id = i
        /\ \A r \in Requests :
              (StepOf(r) /\ rq'[r].op \in {"get", "list", "generate", "stats", "preview"})
                 => templates' = templates
      ]_vars

\* a template with variables whose saved values were set and which was
\* then used to generate a document
C21_Witness ==
    \E i \in TemplateIds, r1, r2 \in Requests :
        /\ templates[i] # NoTemplate /\ templates[i].variables # <<>>
        /\ templates[i].savedValues # NoValues
        /\ rq[r1].op = "values" /\ rq[r1].id = i /\ rq[r1].status = 200
        /\ rq[r2].op = "generate" /\ rq[r2].id = i /\ rq[r2].status = 200

\* C22 (delete destroys the template): when a delete request answers with
\* success the identifier is not in the registry and the original document
\* is not on disk; when fs.remove fails the request answers with an error
\* and the template is still registered.
C22_DeleteDestroys ==
    [][ \A r \in Requests :
          (AnswersNow(r) /\ rq'[r].op = "delete" /\ rq[r].template # NoTemplate) =>
             /\ rq'[r].status \in {200, 500}
             /\ rq'[r].status = 200 =>
                   /\ MapGet(templates', rq[r].id) = NoTemplate
                   /\ rq[r].template.originalFile \notin uploadsDir'
             /\ rq'[r].status = 500 =>
                   /\ rq'[r].cause = "EPERM"
                   /\ MapGet(templates', rq[r].id) # NoTemplate
                   /\ MapGet(templates', rq[r].id).originalFile = rq[r].template.originalFile
      ]_vars

\* one delete of a template failed on fs.remove and a later one succeeded
C22_Witness ==
    \E r1, r2 \in Requests :
        /\ rq[r1].op = "delete" /\ rq[r1].status = 500
        /\ rq[r2].op = "delete" /\ rq[r2].status = 200 /\ rq[r2].id = rq[r1].id
        /\ templates[rq[r2].id] = NoTemplate
        /\ rq[r2].template.originalFile \notin uploadsDir

\* C23 (fatal errors reach the caller with detail): a generate request
\* whose rendering failed or whose conversion cascade was exhausted is
\* answered with an error, and the answer names that cause.
C23_FatalErrorDetail ==
    \A r \in Requests :
        (rq[r].pc = "done" /\ rq[r].op = "generate"
            /\ rq[r].cause \in {"RenderError", "CascadeExhausted"}) =>
              /\ rq[r].status = 500
              /\ rq[r].body.detail = rq[r].cause

\* C25 (automatic cleanup): a file of tempDir whose download has finished
\* is eventually removed.
C25_AutomaticCleanup ==
    \A f \in DownloadNames : (f \in downloaded) ~> (f \notin tempDir)

\* the successful delete requests on template i
Deleted(i) == {r \in Requests : rq[r].op = "delete" /\ rq[r].id = i /\ rq[r].status = 200}

\* C28 (delete is exclusive): of the delete requests on one template
\* identifier at most one answers with success.
C28_DeleteExclusive == \A i \in TemplateIds : Cardinality(Deleted(i)) <= 1

\* C29 (registry/file consistency): the original document of every
\* registered template is on disk, and no generate, stats or preview
\* request that found its template fails on a missing original document.
C29_RegistryFileConsistency ==
    /\ \A i \in TemplateIds :
          templates[i] # NoTemplate => templates[i].originalFile \in uploadsDir
    /\ \A r \in Requests :
          (rq[r].op \in {"generate", "stats", "preview"} /\ rq[r].status = 500)
             => rq[r].cause # "ENOENT"

\* C30 (persistence tracks memory): when an upload, set-default-values or
\* delete request answers with success, loading data/templates.json gives
\* the registry as it is in memory.
C30_PersistenceTracksMemory ==
    [][ \A r \in Requests :
          (AnswersNow(r) /\ rq'[r].op \in {"upload", "values", "delete"}
              /\ rq'[r].status = 200)
             => LoadTemplatesFromDisk(templatesDataFile') = templates'
      ]_vars

(***************************************************************************)
(* Further properties of the cascades and of the extraction                *)
(***************************************************************************)
\* C24 (no silent swallowing): an error that is caught and not raised again
\* is written to the console before execution continues; here, the failed
\* read of a header or footer part.
C24_NoSilentSwallowing == hfFail # 0 => console # {}

\* C26 (input preservation): during and after a conversion the input
\* document is at its path with the content it had, whatever the case of
\* its extension.
C26_InputPreserved ==
    (pc \in {"try", "await", "done", "raised"} /\ outPath # inPath) => fs[inPath] = File(1, 0)

\* C27 (each method at most once): one call of
\* PdfToWordConverter.convertPdfToWord invokes
\* convertWithEnhancedTextExtraction at most once.
C27_EnhancedExtractionOnce == kind = "basic" => enhCalls <= 1

====
